---- MODULE Spec2Model ----
(***************************************************************************)
(* Model of the batch translation orchestrator of                          *)
(* src/services/geminiService.ts (translateSegments and its helpers).      *)
(*                                                                         *)
(* JavaScript values are records with a "type" field.  A string is a       *)
(* sequence of tokens, a token being either the blank " " or a word, so    *)
(* that String.prototype.trim is something the model computes.             *)
(***************************************************************************)
EXTENDS Integers, Sequences, FiniteSets, TLC

\* ------------------------------------------------------------------ bounds

\* longest input list handed to translateSegments when the capability is arbitrary
MaxSegs == 2
\* most timed-out calls that may still be outstanding at the same time
MaxLate == 1
\* longest list of items in a response handed to parseTranslations on its own,
\* and the largest expectedCount
MaxItems == 3
\* text.length of a "short" and of a "long" segment text
ShortLen == 5
LongLen == 1100
\* most cues in a caption stream handed to parseVtt
MaxCues == 2
\* longest list handed to mergeSegments on its own
MaxMergeItems == 3
\* most lines in a pasted transcript
MaxLines == 3
\* most frames in an audio buffer whose samples are chosen one by one
MaxFrames == 2
\* latest start and longest duration of a slice, in quarters of a second
MaxSliceTime == 4
\* most frames in a pitch contour
MaxContour == 3
\* length of a text that is over the character cap of a batch by itself
HugeLen == 2200
\* most segments in a list of mixed texts given to buildTranslationBatches
MaxBatchSegs == 4

\* ------------------------------------------------------- program constants

TRANSLATION_MAX_SEGMENTS_PER_BATCH_PlusOne == 20 + 1
TRANSLATION_MAX_SEGMENTS_PER_BATCH == 20
TRANSLATION_MAX_CHARS_PER_BATCH == 2200
TRANSLATION_MAX_ATTEMPTS == 3
TRANSLATION_TIMEOUT_MS == 90000

\* ------------------------------------------------------- JavaScript values

UNDEFINED == [type |-> "undefined"]
NULL == [type |-> "null"]
NUMBER == [type |-> "number"]
Str(chars) == [type |-> "string", chars |-> chars]
Arr(items) == [type |-> "array", items |-> items]
Obj(props) == [type |-> "object", props |-> props]

TRANSLATION_FALLBACK_TEXT == Str(<<"[Translation unavailable]">>)

\* a translation left by an earlier run
EarlierTranslation == Str(<<"earlier">>)

\* what the capability answers for the segment with this original index
Answer(index) == Str(<<"t" \o ToString(index)>>)

\* JavaScript truthiness of undefined | null | string
Truthy(v) == v.type = "string" /\ v.chars # <<>>

\* a || b
Or(a, b) == IF Truthy(a) THEN a ELSE b

\* a ?? b
Coalesce(a, b) == IF a.type \in {"undefined", "null"} THEN b ELSE a

\* array[i] with i counted from 0
At(items, i) == IF i + 1 \in 1..Len(items) THEN items[i + 1] ELSE UNDEFINED

\* obj[key]
Prop(obj, key) == IF key \in DOMAIN obj.props THEN obj.props[key] ELSE UNDEFINED

RECURSIVE TrimStart(_)
TrimStart(chars) ==
    IF chars # <<>> /\ Head(chars) = " " THEN TrimStart(Tail(chars)) ELSE chars

RECURSIVE TrimEnd(_)
TrimEnd(chars) ==
    IF chars # <<>> /\ chars[Len(chars)] = " "
    THEN TrimEnd(SubSeq(chars, 1, Len(chars) - 1))
    ELSE chars

\* String.prototype.trim
Trim(chars) == TrimEnd(TrimStart(chars))

\* --------------------------------------------------------- response texts

\* response.text: nothing ("" or undefined), a JSON document (possibly wrapped
\* in a markdown code fence), or text that is no JSON at all
NoText == [kind |-> "empty"]
Garbage == [kind |-> "garbage"]
JsonText(value) == [kind |-> "json", fenced |-> FALSE, value |-> value]
Fenced(value) == [kind |-> "json", fenced |-> TRUE, value |-> value]

\* text || "{}"
OrEmptyObject(text) == IF text.kind = "empty" THEN JsonText(Obj(<<>>)) ELSE text

\* JSON.parse throws a SyntaxError on this text
JSONParseThrows(text) == text.kind = "garbage" \/ (text.kind = "json" /\ text.fenced)

\* JSON.parse of a text it accepts
JSONParse(text) == text.value

BareKey(i) == ToString(i)
BracketKey(i) == "[" \o ToString(i) \o "]"

normalizeTranslation(value) ==
    IF value.type # "string" THEN NULL
    ELSE LET trimmed == Trim(value.chars)
         IN IF Len(trimmed) > 0 THEN Str(trimmed) ELSE NULL

\* the element the index-keyed branch reads for position i (from 0)
KeyedLookup(obj, i) ==
    Coalesce(Prop(obj, BareKey(i)),
        Coalesce(Prop(obj, BracketKey(i)),
            Coalesce(Prop(obj, BareKey(i + 1)), Prop(obj, BracketKey(i + 1)))))

RawTranslations(parsed, expectedCount) ==
    IF parsed.type = "array" THEN parsed.items
    ELSE IF parsed.type = "object"
    THEN IF Prop(parsed, "translations").type = "array"
         THEN Prop(parsed, "translations").items
         ELSE [k \in 1..expectedCount |-> KeyedLookup(parsed, k - 1)]
    ELSE <<>>

\* parseTranslations on a text JSON.parse accepts
parseTranslations(responseText, expectedCount) ==
    LET parsed == JSONParse(OrEmptyObject(responseText))
        rawTranslations == RawTranslations(parsed, expectedCount)
    IN [k \in 1..expectedCount |-> normalizeTranslation(At(rawTranslations, k - 1))]

parseTranslationsThrows(responseText) == JSONParseThrows(OrEmptyObject(responseText))

\* ---------------------------------------------------------------- batching

TextLength(text) ==
    IF text = "huge" THEN HugeLen ELSE IF text = "long" THEN LongLen ELSE ShortLen

RECURSIVE forEachSegment(_, _, _, _, _)
forEachSegment(segments, k, batches, current, currentChars) ==
    IF k > Len(segments) THEN [batches |-> batches, current |-> current]
    ELSE LET segment == segments[k]
             index == k - 1
             estimatedChars == TextLength(segment.text) + 8
             exceedsSegmentCap == Len(current) >= TRANSLATION_MAX_SEGMENTS_PER_BATCH
             exceedsCharCap ==
                 currentChars + estimatedChars > TRANSLATION_MAX_CHARS_PER_BATCH
             close == Len(current) > 0 /\ (exceedsSegmentCap \/ exceedsCharCap)
             kept == IF close THEN <<>> ELSE current
             keptChars == IF close THEN 0 ELSE currentChars
         IN forEachSegment(
                segments, k + 1,
                IF close THEN Append(batches, current) ELSE batches,
                Append(kept, [index |-> index, segment |-> segment]),
                keptChars + estimatedChars)

buildTranslationBatches_DropLast(segments) ==
    forEachSegment(segments, 1, <<>>, <<>>, 0).batches

buildTranslationBatches(segments) ==
    LET r == forEachSegment(segments, 1, <<>>, <<>>, 0)
    IN IF Len(r.current) > 0 THEN Append(r.batches, r.current) ELSE r.batches

\* -------------------------------------------------------------------- state

VARIABLES
    segments,            \* the list translateSegments was called with
    hasApiKey,           \* process.env.API_KEY is set
    capability,          \* how the translation capability behaves
    pc,                  \* "idle", "running", "returned" or "threw"
    batches,             \* buildTranslationBatches(segments)
    batchNo,             \* position of the for..of loop over batches (from 1)
    translatedSegments,
    completed,
    failed,
    progress,            \* the snapshots handed to onProgress, in order
    tasks,               \* the invocations of translateBatchWithRecovery
    timers,              \* pending setTimeout timers of withTimeout
    late,                \* calls that timed out and have not settled yet, of
                         \* invocations that are still in their retry loop
    stale,               \* the calls that timed out and have not settled yet,
                         \* of all invocations, and a mark once the answer of
                         \* one has arrived (capability "answersLate")
    returned,            \* the value translateSegments resolved with
    parseCall,           \* a call of parseTranslations on its own
    pureCall             \* a call of one of the other pure functions on its own

translateVars == <<segments, hasApiKey, capability, pc, batches, batchNo,
                   translatedSegments, completed, failed, progress, tasks,
                   timers, late, stale, returned>>

\* the variables translateSegments does not touch
otherVars == <<parseCall, pureCall>>

vars == <<translateVars, otherVars>>

\* ------------------------------------------------------------------ inputs

Texts == {"short", "long"}

\* what an earlier run left in segment i: nothing, a translation for every
\* segment, the fallback for every segment, or a translation for every other
\* segment
PriorPatterns == {"none", "earlier", "fallback", "mixed"}
PriorOf(pattern, i) ==
    IF pattern = "none" THEN UNDEFINED
    ELSE IF pattern = "earlier" THEN EarlierTranslation
    ELSE IF pattern = "fallback" THEN TRANSLATION_FALLBACK_TEXT
    ELSE IF i % 2 = 1 THEN EarlierTranslation ELSE UNDEFINED

MakeSegment(i, text, translation) ==
    [id |-> i, text |-> text, start |-> i, duration |-> 1,
     translation |-> translation]

\* every list of at most MaxSegs segments
SmallInputs ==
    UNION {
        {[i \in 1..n |-> MakeSegment(i, text[i], PriorOf(p, i))] :
            text \in [1..n -> Texts], p \in PriorPatterns} :
        n \in 0..MaxSegs}

\* lists of short texts that make one batch: one of odd or even length just
\* above MaxSegs, and one that fills the batch to the segment cap
OneBatchInputs ==
    {[i \in 1..n |-> MakeSegment(i, "short", PriorOf(p, i))] :
        n \in {MaxSegs + 1, TRANSLATION_MAX_SEGMENTS_PER_BATCH}, p \in PriorPatterns}

\* "arbitrary": every call may resolve with any response, reject or time out.
\* "failsWholeBatch": every call for a top-level batch fails and every call
\* for a sub-batch resolves with the translations in the requested shape.
\* "answersLate": every call resolves with the translations in the requested
\* shape, in time or at any moment after its timeout; only with this
\* capability is an answer followed beyond the retry loop of its invocation.
Capabilities == {"arbitrary", "failsWholeBatch", "answersLate"}

\* lists of one to MaxSegs segments that come without a translation, the
\* texts all short (one batch) or all long (a batch each)
LateInputs ==
    {[i \in 1..n |-> MakeSegment(i, text, UNDEFINED)] : n \in 1..MaxSegs, text \in Texts}

NoCall == [pc |-> "none"]

Init ==
    /\ parseCall = NoCall
    /\ pureCall = NoCall
    /\ capability \in Capabilities
    /\ segments \in
           IF capability = "arbitrary" THEN SmallInputs
           ELSE IF capability = "failsWholeBatch" THEN OneBatchInputs
           ELSE LateInputs
    /\ hasApiKey \in BOOLEAN
    /\ pc = "idle"
    /\ batches = <<>>
    /\ batchNo = 0
    /\ translatedSegments = <<>>
    /\ completed = 0
    /\ failed = 0
    /\ progress = <<>>
    /\ tasks = <<>>
    /\ timers = {}
    /\ late = {}
    /\ stale = {}
    /\ returned = <<>>

\* ------------------------------------------------------------------- tasks

\* a task is one invocation of translateBatchWithRecovery; its id is the id
\* of the invocation that split into it followed by 0 (left) or 1 (right),
\* the invocation for top-level batch b having id <<b>>
Root(b) == <<b>>
LeftOf(t) == Append(t, 0)
RightOf(t) == Append(t, 1)
IsRoot(t) == Len(t) = 1

Call == [ev |-> "call", ms |-> 0]
Ok == [ev |-> "ok", ms |-> 0]
Failure == [ev |-> "fail", ms |-> 0]
Sleep(ms) == [ev |-> "sleep", ms |-> ms]

\* an invocation runs synchronously up to its first await: attempt 1 is issued
NewTask(batch) ==
    [batch |-> batch, pc |-> "calling", attempt |-> 1, log |-> <<Call>>,
     result |-> <<>>]

Timer(t, attempt) == [task |-> t, attempt |-> attempt, ms |-> TRANSLATION_TIMEOUT_MS]

setTimeout(pending, t, attempt) == pending \cup {Timer(t, attempt)}

\* mutant: the timer is left running
clearTimeout_Noop(pending, t, attempt) == pending

clearTimeout(pending, t, attempt) == pending \ {Timer(t, attempt)}

\* mutant: one attempt more
isFinalAttempt_Fourth(attempt) == attempt = TRANSLATION_MAX_ATTEMPTS + 1

isFinalAttempt(attempt) == attempt = TRANSLATION_MAX_ATTEMPTS

\* mutant: the same wait before every retry
BackoffMs_Flat(attempt) == 1000

\* sleep(1000 * attempt)
BackoffMs(attempt) == 1000 * attempt

\* mutant: Math.floor
Midpoint_Floor(length) == length \div 2

\* Math.ceil(batch.length / 2)
Midpoint(length) == (length + 1) \div 2

\* batch.slice(from, to), indices counted from 0, to exclusive
slice(batch, from, to) == SubSeq(batch, from + 1, to)

\* mutant: the halves are put together the wrong way round
Merge_Reversed(leftTranslations, rightTranslations) ==
    rightTranslations \o leftTranslations

\* mutant: the left half's translations are lost
Merge_RightOnly(leftTranslations, rightTranslations) == rightTranslations

\* [...leftTranslations, ...rightTranslations]
Merge(leftTranslations, rightTranslations) == leftTranslations \o rightTranslations

\* mutant: the promise is not awaited
Settled_NotAwaited(task) == TRUE

\* the promise of this invocation has resolved
Settled(task) == task.pc = "done"

\* what the catch block and the code after the loop do to the tasks when the
\* attempt of t fails: back off, give up on a single segment, or split
AfterFailure(t) ==
    LET task == tasks[t]
        log == Append(task.log, Failure)
    IN IF ~isFinalAttempt(task.attempt)
       THEN [tasks EXCEPT ![t].pc = "sleeping",
                          ![t].log = Append(log, Sleep(BackoffMs(task.attempt)))]
       ELSE IF Len(task.batch) = 1
       THEN [tasks EXCEPT ![t].pc = "done", ![t].log = log, ![t].result = <<NULL>>]
       ELSE LET midpoint == Midpoint(Len(task.batch))
                left == slice(task.batch, 0, midpoint)
                right == slice(task.batch, midpoint, Len(task.batch))
            IN (LeftOf(t) :> NewTask(left)) @@ (RightOf(t) :> NewTask(right))
               @@ [tasks EXCEPT ![t].pc = "joining", ![t].log = log]

\* the timers set by the invocations AfterFailure(t) starts
TimersAfterFailure(pending, t) ==
    IF isFinalAttempt(tasks[t].attempt) /\ Len(tasks[t].batch) > 1
    THEN setTimeout(setTimeout(pending, LeftOf(t), 1), RightOf(t), 1)
    ELSE pending

\* ------------------------------------------------- the capability's answers

CorrectItems(batch) == [k \in 1..Len(batch) |-> Answer(batch[k].index)]

Wrapped(items) == Obj("translations" :> Arr(items))

\* an object keyed by index, counting from base, bare or bracketed keys
KeyFor(i, bracketed) == IF bracketed THEN BracketKey(i) ELSE BareKey(i)
Keyed(items, base, bracketed) ==
    Obj([key \in {KeyFor(k - 1 + base, bracketed) : k \in 1..Len(items)} |->
            items[(CHOOSE k \in 1..Len(items) : KeyFor(k - 1 + base, bracketed) = key)]])

\* items with position k (from 1) replaced by a value
With(items, k, value) == [items EXCEPT ![k] = value]

\* the response texts an arbitrary capability may resolve a call with
ArbitraryResponses(batch) ==
    LET items == CorrectItems(batch)
    IN {JsonText(Wrapped(items)), Garbage, NoText}
       \cup {JsonText(Wrapped(With(items, 1, Str(<<" ">>))))}

Responses(batch) ==
    IF capability = "arbitrary" THEN ArbitraryResponses(batch)
    ELSE {JsonText(Wrapped(CorrectItems(batch)))}

MaySucceed(t) == capability # "failsWholeBatch" \/ ~IsRoot(t)
MayFail(t) == capability = "arbitrary" \/ (capability = "failsWholeBatch" /\ IsRoot(t))
MayTimeOut(t) == MayFail(t) \/ capability = "answersLate"

\* ----------------------------------------------------------- translateSegments

\* mutant: the fallback is forgotten
ResolvedTranslation_NoFallback(translation, entry) ==
    Or(translation, entry.segment.translation)

\* mutant: the translation of an earlier run is not kept
ResolvedTranslation_NotKept(translation, entry) ==
    Or(translation, TRANSLATION_FALLBACK_TEXT)

\* translation || entry.segment.translation || TRANSLATION_FALLBACK_TEXT
ResolvedTranslation(translation, entry) ==
    Or(Or(translation, entry.segment.translation), TRANSLATION_FALLBACK_TEXT)

\* mutant: the segment is rebuilt from its text alone
Stamp_TextOnly(segment, translation) ==
    [segment EXCEPT !.translation = translation, !.start = 0, !.duration = 0]

\* { ...entry.segment, translation: resolvedTranslation }
Stamp(segment, translation) == [segment EXCEPT !.translation = translation]

\* mutant: a failure is looked for as a missing value, which never is one
CountsAsFailed_Missing(resolvedTranslation) == ~Truthy(resolvedTranslation)

\* resolvedTranslation === TRANSLATION_FALLBACK_TEXT
CountsAsFailed(resolvedTranslation) == resolvedTranslation = TRANSLATION_FALLBACK_TEXT

\* batch.forEach((entry, batchIndex) => ...) from batchIndex on (from 0)
RECURSIVE forEachEntry(_, _, _, _, _)
forEachEntry(batch, translations, batchIndex, translated, failedCount) ==
    IF batchIndex >= Len(batch)
    THEN [translatedSegments |-> translated, failed |-> failedCount]
    ELSE LET entry == batch[batchIndex + 1]
             translation == At(translations, batchIndex)
             resolvedTranslation == ResolvedTranslation(translation, entry)
         IN forEachEntry(
                batch, translations, batchIndex + 1,
                [translated EXCEPT ![entry.index + 1] =
                    Stamp(entry.segment, resolvedTranslation)],
                IF CountsAsFailed(resolvedTranslation)
                THEN failedCount + 1 ELSE failedCount)

\* mutant: one is added per batch
CompletedAfter_One(count, batch) == count + 1

\* completed += batch.length
CompletedAfter(count, batch) == count + Len(batch)

Snapshot(completedCount, failedCount, translated) ==
    [completed |-> completedCount, total |-> Len(segments),
     failed |-> failedCount, translatedSegments |-> translated]

\* segments.map((seg) => ({ ...seg, translation: TRANSLATION_FALLBACK_TEXT }))
StampAllFallback_KeepEarlier(segs) ==
    [k \in 1..Len(segs) |->
        Stamp(segs[k], Or(segs[k].translation, TRANSLATION_FALLBACK_TEXT))]

StampAllFallback(segs) ==
    [k \in 1..Len(segs) |-> Stamp(segs[k], TRANSLATION_FALLBACK_TEXT)]

\* the catch block of translateSegments: how the call ends when the try
\* block throws
Catch(segs) == [pc |-> "returned", value |-> StampAllFallback(segs)]

\* translateSegments is called: it runs up to its first await
Start ==
    /\ pc = "idle"
    /\ IF Len(segments) = 0
       THEN /\ pc' = "returned"
            /\ returned' = <<>>
            /\ UNCHANGED <<batches, batchNo, translatedSegments, tasks, timers>>
       ELSE IF ~hasApiKey
       THEN /\ pc' = Catch(segments).pc
            /\ returned' = Catch(segments).value
            /\ UNCHANGED <<batches, batchNo, translatedSegments, tasks, timers>>
       ELSE LET built == buildTranslationBatches(segments)
            IN /\ pc' = "running"
               /\ batches' = built
               /\ batchNo' = 1
               /\ translatedSegments' = segments
               /\ tasks' = (Root(1) :> NewTask(built[1]))
               /\ timers' = setTimeout(timers, Root(1), 1)
               /\ UNCHANGED returned
    /\ UNCHANGED <<otherVars, segments, hasApiKey, capability, completed, failed, progress, late,
                   stale>>

\* A call that timed out keeps nothing but its own timer and the settled
\* promise of its withTimeout; once its invocation has left the retry loop the
\* program holds neither, and the call is no longer tracked.
InRetryLoop(task) == task.pc \in {"calling", "sleeping"}
Tracked(calls, ts) == {call \in calls : InRetryLoop(ts[call[1]])}

\* a call that timed out and has not settled, and the mark left when the
\* answer of such a call has arrived
Awaited(call) == [call |-> call, arrived |-> FALSE]
Arrived == [call |-> <<>>, arrived |-> TRUE]
Outstanding == {s.call : s \in {x \in stale : ~x.arrived}}

\* mutant: the late answer becomes the result of the invocation
settleAgain_Adopted(ts, call) ==
    [ts EXCEPT ![call[1]].pc = "done",
               ![call[1]].result = [k \in 1..Len(ts[call[1]].batch) |-> NULL]]

\* resolve(value) or reject(error) of the promise of withTimeout when the
\* timer has rejected it already: a settled promise stays as it is
settleAgain(ts, call) == ts

\* generateContent resolves in time with a response text
Resolve(t, text) ==
    /\ pc = "running"
    /\ t \in DOMAIN tasks
    /\ tasks[t].pc = "calling"
    /\ MaySucceed(t)
    /\ text \in Responses(tasks[t].batch)
    /\ LET cleared == clearTimeout(timers, t, tasks[t].attempt)
       IN IF parseTranslationsThrows(text)
          THEN /\ tasks' = AfterFailure(t)
               /\ timers' = TimersAfterFailure(cleared, t)
          ELSE /\ tasks' = [tasks EXCEPT
                      ![t].pc = "done",
                      ![t].log = Append(@, Ok),
                      ![t].result = parseTranslations(text, Len(tasks[t].batch))]
               /\ timers' = cleared
    /\ late' = Tracked(late, tasks')
    /\ UNCHANGED <<otherVars, segments, hasApiKey, capability, pc, batches, batchNo,
                   translatedSegments, completed, failed, progress, stale, returned>>

\* generateContent rejects in time
Reject(t) ==
    /\ pc = "running"
    /\ t \in DOMAIN tasks
    /\ tasks[t].pc = "calling"
    /\ MayFail(t)
    /\ tasks' = AfterFailure(t)
    /\ timers' = TimersAfterFailure(clearTimeout(timers, t, tasks[t].attempt), t)
    /\ late' = Tracked(late, tasks')
    /\ UNCHANGED <<otherVars, segments, hasApiKey, capability, pc, batches, batchNo,
                   translatedSegments, completed, failed, progress, stale, returned>>

\* the timer of withTimeout fires: it rejects if the call is still awaited
Timeout(timer) ==
    /\ timer \in timers
    /\ LET t == timer.task
           awaited == /\ pc = "running"
                      /\ tasks[t].pc = "calling"
                      /\ tasks[t].attempt = timer.attempt
       IN /\ awaited => /\ MayTimeOut(t)
                         /\ Cardinality(late) < MaxLate
                         /\ Cardinality(Outstanding) < MaxLate
          /\ IF awaited
             THEN /\ tasks' = AfterFailure(t)
                  /\ timers' = TimersAfterFailure(timers \ {timer}, t)
                  /\ late' = Tracked(late \cup {<<t, timer.attempt>>}, tasks')
                  /\ stale' = IF capability = "answersLate"
                               THEN stale \cup {Awaited(<<t, timer.attempt>>)}
                               ELSE stale
             ELSE /\ timers' = timers \ {timer}
                  /\ UNCHANGED <<tasks, late, stale>>
    /\ UNCHANGED <<otherVars, segments, hasApiKey, capability, pc, batches, batchNo,
                   translatedSegments, completed, failed, progress, returned>>

\* a call that already timed out settles: then/catch of withTimeout run, the
\* promise they resolve or reject is settled already
LateSettle(call) ==
    /\ call \in late \cup Outstanding
    /\ late' = late \ {call}
    /\ stale' = IF call \in Outstanding
                THEN (stale \ {Awaited(call)}) \cup {Arrived} ELSE stale
    /\ timers' = clearTimeout(timers, call[1], call[2])
    /\ tasks' = settleAgain(tasks, call)
    /\ UNCHANGED <<otherVars, segments, hasApiKey, capability, pc, batches, batchNo,
                   translatedSegments, completed, failed, progress, returned>>

\* the backoff sleep ends: the next attempt is issued
Wake(t) ==
    /\ pc = "running"
    /\ t \in DOMAIN tasks
    /\ tasks[t].pc = "sleeping"
    /\ tasks' = [tasks EXCEPT ![t].pc = "calling",
                              ![t].attempt = @ + 1,
                              ![t].log = Append(@, Call)]
    /\ timers' = setTimeout(timers, t, tasks[t].attempt + 1)
    /\ UNCHANGED <<otherVars, segments, hasApiKey, capability, pc, batches, batchNo,
                   translatedSegments, completed, failed, progress, late, stale,
                   returned>>

\* Promise.all of the two halves resolves
Join(t) ==
    /\ pc = "running"
    /\ t \in DOMAIN tasks
    /\ tasks[t].pc = "joining"
    /\ Settled(tasks[LeftOf(t)])
    /\ Settled(tasks[RightOf(t)])
    /\ tasks' = [tasks EXCEPT
           ![t].pc = "done",
           ![t].result = Merge(tasks[LeftOf(t)].result, tasks[RightOf(t)].result)]
    /\ UNCHANGED <<otherVars, segments, hasApiKey, capability, pc, batches, batchNo,
                   translatedSegments, completed, failed, progress, timers, late,
                   stale, returned>>

\* the await of the for..of loop resumes: the batch is applied, the snapshot
\* is emitted, and the loop goes on to the next batch or returns
FinishBatch ==
    /\ pc = "running"
    /\ Settled(tasks[Root(batchNo)])
    /\ LET batch == batches[batchNo]
           translations == tasks[Root(batchNo)].result
           applied == forEachEntry(batch, translations, 0, translatedSegments, failed)
           done == CompletedAfter(completed, batch)
       IN /\ translatedSegments' = applied.translatedSegments
          /\ failed' = applied.failed
          /\ completed' = done
          /\ progress' = Append(progress,
                 Snapshot(done, applied.failed, applied.translatedSegments))
          /\ IF batchNo < Len(batches)
             THEN /\ batchNo' = batchNo + 1
                  /\ tasks' = (Root(batchNo + 1) :> NewTask(batches[batchNo + 1])) @@ tasks
                  /\ timers' = setTimeout(timers, Root(batchNo + 1), 1)
                  /\ UNCHANGED <<pc, returned>>
             ELSE /\ pc' = "returned"
                  /\ returned' = applied.translatedSegments
                  /\ UNCHANGED <<batchNo, tasks, timers>>
    /\ UNCHANGED <<otherVars, segments, hasApiKey, capability, batches, late, stale>>

TaskIds == DOMAIN tasks

Next ==
    \/ Start
    \/ \E t \in TaskIds : \E text \in Responses(tasks[t].batch) : Resolve(t, text)
    \/ \E t \in TaskIds : Reject(t)
    \/ \E timer \in timers : Timeout(timer)
    \/ \E call \in late \cup Outstanding : LateSettle(call)
    \/ \E t \in TaskIds : Wake(t)
    \/ \E t \in TaskIds : Join(t)
    \/ FinishBatch

Spec == Init /\ [][Next]_vars

\* a call that is awaited settles in time or times out
CallEnds ==
    \/ \E t \in TaskIds : \E text \in Responses(tasks[t].batch) : Resolve(t, text)
    \/ \E t \in TaskIds : Reject(t)
    \/ \E timer \in timers : Timeout(timer)

\* the steps the program takes by itself once translateSegments is running:
\* the end of a backoff sleep and the continuations of Promise.all and of the
\* await in the loop
Resumes ==
    \/ \E t \in TaskIds : Wake(t)
    \/ \E t \in TaskIds : Join(t)
    \/ FinishBatch

\* As long as an awaited call can end or the program can resume, one of the
\* two happens: every awaited call settles or times out, every backoff timer
\* fires, and the event loop runs the continuations that are ready.
Fairness == WF_vars(CallEnds \/ Resumes)

\* the capabilities whose calls end in one way only, or in time or late
LiveInit == Init /\ capability # "arbitrary"

LiveSpec == LiveInit /\ [][Next]_vars /\ Fairness

\* ------------------------------------------- parseTranslations on its own

\* what the capability may put at position k (from 1) of its answer: the
\* translation, the translation with blanks around it, a blank string, an
\* empty string, a number, or null
ItemChoices(k) ==
    {Answer(k - 1), Str(<<" ", "t" \o ToString(k - 1), " ">>), Str(<<" ">>),
     Str(<<>>), NUMBER, NULL}

ItemLists ==
    UNION {{items \in [1..n -> UNION {ItemChoices(k) : k \in 1..n}] :
               \A k \in 1..n : items[k] \in ItemChoices(k)} : n \in 1..MaxItems}

Shapes ==
    {[shape |-> "wrapped", base |-> 0, bracketed |-> FALSE],
     [shape |-> "array", base |-> 0, bracketed |-> FALSE]}
    \cup {[shape |-> "keyed", base |-> b, bracketed |-> br] :
              b \in {0, 1}, br \in BOOLEAN}

\* the JSON value of a response of this shape that carries these items
Shaped(shape, items) ==
    IF shape.shape = "wrapped" THEN Wrapped(items)
    ELSE IF shape.shape = "array" THEN Arr(items)
    ELSE Keyed(items, shape.base, shape.bracketed)

ParseCalls ==
    {[pc |-> "called", shape |-> shape, items |-> items, fenced |-> fenced,
      responseText |-> IF fenced THEN Fenced(Shaped(shape, items))
                       ELSE JsonText(Shaped(shape, items)),
      expectedCount |-> n, result |-> <<>>] :
        shape \in Shapes, items \in ItemLists, fenced \in BOOLEAN,
        n \in 1..MaxItems}

TranslateIdle ==
    /\ capability = "arbitrary"
    /\ segments = <<>>
    /\ hasApiKey = FALSE
    /\ pc = "idle"
    /\ batches = <<>>
    /\ batchNo = 0
    /\ translatedSegments = <<>>
    /\ completed = 0
    /\ failed = 0
    /\ progress = <<>>
    /\ tasks = <<>>
    /\ timers = {}
    /\ late = {}
    /\ stale = {}
    /\ returned = <<>>

ParseInit ==
    /\ TranslateIdle
    /\ pureCall = NoCall
    /\ parseCall \in ParseCalls

\* parseTranslations returns
ParseReturns ==
    /\ parseCall.pc = "called"
    /\ ~parseTranslationsThrows(parseCall.responseText)
    /\ parseCall' = [parseCall EXCEPT
           !.pc = "returned",
           !.result = parseTranslations(parseCall.responseText, parseCall.expectedCount)]
    /\ UNCHANGED <<translateVars, pureCall>>

\* JSON.parse throws out of parseTranslations
ParseThrows ==
    /\ parseCall.pc = "called"
    /\ parseTranslationsThrows(parseCall.responseText)
    /\ parseCall' = [parseCall EXCEPT !.pc = "threw"]
    /\ UNCHANGED <<translateVars, pureCall>>

ParseNext == ParseReturns \/ ParseThrows

ParseSpec == ParseInit /\ [][ParseNext]_vars

\* --------------------------------------------------------- caption streams
\* src/server/transcriptApi.ts.  Times are whole milliseconds (the code holds
\* them as seconds in floating point); a string is the sequence of its tokens:
\* a markup tag, an HTML entity, one blank, "-->", one of . ! ?, or a run of
\* other characters.

Timestamp(h, m, s, ms) ==
    [hours |-> h, minutes |-> m, seconds |-> s, millis |-> ms]

\* parseTimestamp("HH:MM:SS.mmm")
parseTimestamp(ts) ==
    ts.hours * 3600000 + ts.minutes * 60000 + ts.seconds * 1000 + ts.millis

\* the thresholds of parseVtt and mergeSegments
TinyCueMs == 50
MergeMaxChars == 200
MergeMaxGapMs == 2000

\* a line of the stream: one that matches the cue-timing pattern, or any other
CueLine(from, to) == [kind |-> "time", from |-> from, to |-> to]
TextLine(tokens) == [kind |-> "text", tokens |-> tokens]

Arrow == "-->"
TimingTags == {"<00:00:02.000>", "<00:00:03.100>"}
ClassTags == {"<c>", "</c>"}
OtherTags == {"<i>", "</i>"}
Punctuation == {".", "!", "?"}

\* line.match(/(\d{2}:\d{2}:\d{2}\.\d{3})\s*-->\s*(...)/)
timestampMatch(line) == line.kind = "time"

\* lines[i].includes('-->')
includesArrow(line) ==
    line.kind = "time" \/ \E k \in DOMAIN line.tokens : line.tokens[k] = Arrow

\* lines[i].trim() === ''
isBlank(line) ==
    line.kind = "text" /\ \A k \in DOMAIN line.tokens : line.tokens[k] = " "

\* /<\d{2}:\d{2}:\d{2}\.\d{3}>/.test(l)
hasTimingTag(tokens) == \E k \in DOMAIN tokens : tokens[k] \in TimingTags

\* text.length
RECURSIVE StringLength(_)
StringLength(tokens) ==
    IF tokens = <<>> THEN 0 ELSE Len(Head(tokens)) + StringLength(Tail(tokens))

RemoveAll(tokens, removed) == SelectSeq(tokens, LAMBDA tok : tok \notin removed)

DecodeEntity(tok) ==
    CASE tok = "&amp;" -> "&"
      [] tok = "&lt;" -> "<"
      [] tok = "&gt;" -> ">"
      [] tok = "&quot;" -> "\""
      [] tok = "&#39;" -> "'"
      [] tok = "&nbsp;" -> " "
      [] OTHER -> tok

DecodeEntities(tokens) == [k \in DOMAIN tokens |-> DecodeEntity(tokens[k])]

\* .replace(/\s+/g, ' ')
RECURSIVE CollapseWhitespace(_)
CollapseWhitespace(tokens) ==
    IF Len(tokens) < 2 THEN tokens
    ELSE IF tokens[1] = " " /\ tokens[2] = " "
    THEN CollapseWhitespace(Tail(tokens))
    ELSE <<tokens[1]>> \o CollapseWhitespace(Tail(tokens))

cleanVttText(text) ==
    Trim(CollapseWhitespace(DecodeEntities(
        RemoveAll(RemoveAll(RemoveAll(text, TimingTags), ClassTags), OtherTags))))

\* where the loop over the text lines of a cue stops: the first line from i on
\* that is blank or includes "-->", or the end of the stream
RECURSIVE skipTextLines(_, _)
skipTextLines(lines, i) ==
    IF i <= Len(lines) /\ ~isBlank(lines[i]) /\ ~includesArrow(lines[i])
    THEN skipTextLines(lines, i + 1)
    ELSE i

RECURSIVE skipHeader(_, _)
skipHeader(lines, i) ==
    IF i <= Len(lines) /\ ~includesArrow(lines[i])
    THEN skipHeader(lines, i + 1)
    ELSE i

isTinyCue_Negative(duration) == duration < 0

isTinyCue(duration) == duration < TinyCueMs

textToUse_First(textLines) ==
    IF Len(textLines) >= 1 THEN textLines[1] ELSE <<>>

textToUse(textLines) ==
    IF Len(textLines) >= 2
    THEN LET tagged == {k \in DOMAIN textLines : hasTimingTag(textLines[k])}
         IN IF tagged # {}
            THEN textLines[CHOOSE k \in tagged : \A other \in tagged : k <= other]
            ELSE textLines[Len(textLines)]
    ELSE IF Len(textLines) = 1 THEN textLines[1]
    ELSE <<>>

TranscriptItem(text, start, duration) ==
    [text |-> text, start |-> start, duration |-> duration]

\* the while loop of parseVtt from line i on (lines count from 1)
RECURSIVE cueLoop(_, _, _)
cueLoop(lines, i, segs) ==
    IF i > Len(lines) THEN segs
    ELSE IF timestampMatch(lines[i])
    THEN LET startTime == parseTimestamp(lines[i].from)
             endTime == parseTimestamp(lines[i].to)
             duration == endTime - startTime
             after == skipTextLines(lines, i + 1)
             textLines == [k \in 1..(after - i - 1) |-> lines[i + k].tokens]
             cleanText == cleanVttText(textToUse(textLines))
         IN IF isTinyCue(duration) THEN cueLoop(lines, after, segs)
            ELSE IF StringLength(cleanText) > 0
            THEN cueLoop(lines, after,
                     Append(segs, TranscriptItem(cleanText, startTime, duration)))
            ELSE cueLoop(lines, after, segs)
    ELSE cueLoop(lines, i + 1, segs)

\* /[.!?]$/.test(text)
endsWithPunctuation(text) == text # <<>> /\ text[Len(text)] \in Punctuation

shouldMerge_Inclusive(current, seg) ==
    /\ ~endsWithPunctuation(current.text)
    /\ StringLength(current.text \o <<" ">> \o seg.text) <= MergeMaxChars
    /\ seg.start - (current.start + current.duration) <= MergeMaxGapMs

shouldMerge(current, seg) ==
    LET combined == current.text \o <<" ">> \o seg.text
        timeGap == seg.start - (current.start + current.duration)
    IN ~endsWithPunctuation(current.text)
           /\ StringLength(combined) < MergeMaxChars
           /\ timeGap < MergeMaxGapMs

\* the for loop of mergeSegments from segment i on (segments count from 1)
RECURSIVE mergeLoop(_, _, _, _)
mergeLoop(segs, i, current, merged) ==
    IF i > Len(segs) THEN Append(merged, current)
    ELSE LET seg == segs[i]
         IN IF shouldMerge(current, seg)
            THEN mergeLoop(segs, i + 1,
                     [current EXCEPT
                         !.text = current.text \o <<" ">> \o seg.text,
                         !.duration = (seg.start + seg.duration) - current.start],
                     merged)
            ELSE mergeLoop(segs, i + 1, seg, Append(merged, current))

mergeSegments(segs) ==
    IF Len(segs) = 0 THEN <<>>
    ELSE mergeLoop(segs, 2, segs[1], <<>>)

parseVtt(vttContent) ==
    mergeSegments(cueLoop(vttContent, skipHeader(vttContent, 1), <<>>))

\* ------------------------------------------------------ parseVtt on its own

\* cue timings: a 30 ms echo, 1.5 -> 4.0 s, end before start, and one past
\* the first minute
TinyTiming == <<Timestamp(0, 0, 1, 0), Timestamp(0, 0, 1, 30)>>
ExampleTiming == <<Timestamp(0, 0, 1, 500), Timestamp(0, 0, 4, 0)>>
ReversedTiming == <<Timestamp(0, 0, 4, 0), Timestamp(0, 0, 1, 500)>>
LateTiming == <<Timestamp(0, 1, 0, 0), Timestamp(0, 1, 2, 500)>>

CueTimings ==
    {TinyTiming, ExampleTiming, ReversedTiming, LateTiming}

\* the text lines of a cue
HelloLines == <<<<"Hello">>>>
ExampleLines == <<<<"Hello">>, <<"<00:00:02.000>", "<c>", " ", "world">>>>
UntaggedLines == <<<<"old">>, <<"new", ".">>>>
MarkupOnlyLines == <<<<"<c>", "</c>">>>>
EntityLines ==
    <<<<" ", "a", "&nbsp;", " ", "&amp;", "<i>", "b", "</i>", " ">>,
      <<"x", " ", Arrow, " ", "y">>, <<"z">>>>

TwoTaggedLines ==
    <<<<"one">>, <<"<00:00:02.000>", "two">>, <<"<00:00:03.100>", "three">>>>

CueTexts ==
    {<<>>, HelloLines, ExampleLines, UntaggedLines, MarkupOnlyLines, EntityLines,
     TwoTaggedLines}

BlankLine == TextLine(<<>>)

\* the lines of one cue, with or without a blank line after them
CueBlock(timing, texts, blank) ==
    <<CueLine(timing[1], timing[2])>>
        \o [k \in DOMAIN texts |-> TextLine(texts[k])]
        \o (IF blank THEN <<BlankLine>> ELSE <<>>)

\* how a stream is laid out: with or without the WEBVTT header, its cues
\* separated by blank lines or not
WebVttHeader == <<TextLine(<<"WEBVTT">>), BlankLine>>
Layouts ==
    {[header |-> <<>>, blank |-> FALSE], [header |-> <<>>, blank |-> TRUE],
     [header |-> WebVttHeader, blank |-> TRUE]}

\* the stream of these cues, each a timing and its text lines
RECURSIVE CueBlocks(_, _)
CueBlocks(cues, blank) ==
    IF cues = <<>> THEN <<>>
    ELSE CueBlock(Head(cues)[1], Head(cues)[2], blank) \o CueBlocks(Tail(cues), blank)

Stream(layout, cues) == layout.header \o CueBlocks(cues, layout.blank)

VttCall(stream) ==
    [fn |-> "parseVtt", pc |-> "called", vttContent |-> stream, result |-> <<>>]

VttInit ==
    /\ TranslateIdle
    /\ parseCall = NoCall
    /\ \E layout \in Layouts, n \in 0..MaxCues :
           \E cues \in [1..n -> CueTimings \X CueTexts] :
               pureCall = VttCall(Stream(layout, cues))

\* parseVtt returns
ParseVttReturns ==
    /\ pureCall.pc = "called"
    /\ pureCall.fn = "parseVtt"
    /\ pureCall' = [pureCall EXCEPT
           !.pc = "returned", !.result = parseVtt(pureCall.vttContent)]
    /\ UNCHANGED <<translateVars, parseCall>>

VttNext == ParseVttReturns

VttSpec == VttInit /\ [][VttNext]_vars

\* -------------------------------------------------- mergeSegments on its own

\* a word of n characters
RECURSIVE Word(_)
Word(n) == IF n = 0 THEN "" ELSE "x" \o Word(n - 1)

\* texts of 1, 2, 99 and 100 characters, the second ending a sentence
ItemTexts == {<<"a">>, <<"b", ".">>, <<Word(99)>>, <<Word(100)>>}

\* <<start, duration>>: the second starts 1.999 s, the third 2 s after the
\* first one ends
ItemTimings == {<<0, 1000>>, <<2999, 500>>, <<3000, 1000>>}

TranscriptItems ==
    {TranscriptItem(text, timing[1], timing[2]) :
        text \in ItemTexts, timing \in ItemTimings}

MergeCall(segs) ==
    [fn |-> "mergeSegments", pc |-> "called", segs |-> segs, result |-> <<>>]

MergeInit ==
    /\ TranslateIdle
    /\ parseCall = NoCall
    /\ \E n \in 0..MaxMergeItems :
           \E segs \in [1..n -> TranscriptItems] : pureCall = MergeCall(segs)

\* mergeSegments returns
MergeSegmentsReturns ==
    /\ pureCall.pc = "called"
    /\ pureCall.fn = "mergeSegments"
    /\ pureCall' = [pureCall EXCEPT
           !.pc = "returned", !.result = mergeSegments(pureCall.segs)]
    /\ UNCHANGED <<translateVars, parseCall>>

MergeNext == MergeSegmentsReturns

MergeSpec == MergeInit /\ [][MergeNext]_vars

\* ------------------------------------------------------- pasted transcripts
\* src/services/geminiService.ts, lines 738-892.  A line is its leading
\* timestamp, if it has one, and the rest of it as tokens: one blank, one of
\* . ! ?, or a run of other characters.

Seconds(n) == [type |-> "number", value |-> n]

NoStamp == [form |-> "none"]
\* "[m:ss]", "(m:ss)" or "m:ss", with two or three number groups
LineStamp(form, parts) == [form |-> form, parts |-> parts]
RawLine(stamp, text) == [stamp |-> stamp, text |-> text]

\* parseTimestamp of geminiService.ts: the first of TIMESTAMP_PATTERNS that
\* matches the start of the line
parseLineTimestamp(line) ==
    IF line.stamp # NoStamp
    THEN LET match == line.stamp.parts
             hasThird == Len(match) = 3
             hours == IF hasThird THEN match[1] ELSE 0
             minutes == IF hasThird THEN match[2] ELSE match[1]
             seconds == IF hasThird THEN match[3] ELSE match[2]
             totalSeconds == hours * 3600 + minutes * 60 + seconds
         IN [timestamp |-> Seconds(totalSeconds), text |-> Trim(line.text)]
    ELSE [timestamp |-> NULL, text |-> Trim(line.text)]

\* line.trim().length > 0
isNonEmptyLine(line) ==
    line.stamp # NoStamp \/ \E k \in DOMAIN line.text : line.text[k] # " "

\* rawText.split('\n').filter(line => line.trim().length > 0)
nonEmptyLines(rawText) == SelectSeq(rawText, isNonEmptyLine)

\* parsedLines.map(p => p.text).join(' ')
RECURSIVE joinTexts(_)
joinTexts(parsedLines) ==
    IF parsedLines = <<>> THEN <<>>
    ELSE IF Len(parsedLines) = 1 THEN parsedLines[1].text
    ELSE parsedLines[1].text \o <<" ">> \o joinTexts(Tail(parsedLines))

\* the matches of /[^.!?]+[.!?]+|[^.!?]+$/g from the start of tokens on;
\* sentence is the match being read, closing says its punctuation has begun
RECURSIVE sentenceMatches(_, _, _)
sentenceMatches(tokens, sentence, closing) ==
    IF tokens = <<>> THEN (IF sentence = <<>> THEN <<>> ELSE <<sentence>>)
    ELSE IF Head(tokens) \in Punctuation
    THEN IF sentence = <<>> THEN sentenceMatches(Tail(tokens), <<>>, FALSE)
         ELSE sentenceMatches(Tail(tokens), Append(sentence, Head(tokens)), TRUE)
    ELSE IF closing
    THEN <<sentence>> \o sentenceMatches(Tail(tokens), <<Head(tokens)>>, FALSE)
    ELSE sentenceMatches(Tail(tokens), Append(sentence, Head(tokens)), FALSE)

splitIntoSentences(text) ==
    LET matched == sentenceMatches(text, <<>>, FALSE)
        sentences == IF matched = <<>> THEN <<text>> ELSE matched
        trimmed == [k \in DOMAIN sentences |-> Trim(sentences[k])]
    IN SelectSeq(trimmed, LAMBDA s : StringLength(s) > 0)

\* sentence.split(/\s+/).length of a trimmed sentence
RECURSIVE wordCount(_)
wordCount(sentence) ==
    IF Len(sentence) < 2 THEN 1
    ELSE (IF sentence[1] = " " /\ sentence[2] # " " THEN 1 ELSE 0)
             + wordCount(Tail(sentence))

Max(a, b) == IF a >= b THEN a ELSE b

\* Math.max(Math.ceil(wordCount * 0.3), 2)
estimatedDuration(sentence) == Max((3 * wordCount(sentence) + 9) \div 10, 2)

SegmentId(i) == "seg-" \o ToString(i)

\* mode 1 of parseTranscriptText: the loop over parsedLines from line i on
\* (lines count from 1, the ids from 0)
RECURSIVE timestampedLoop(_, _, _, _)
timestampedLoop(parsedLines, i, lastTimestamp, segs) ==
    IF i > Len(parsedLines) THEN segs
    ELSE IF parsedLines[i].text = <<>>
    THEN timestampedLoop(parsedLines, i + 1, lastTimestamp, segs)
    ELSE LET currentTimestamp ==
                 Coalesce(parsedLines[i].timestamp, Seconds(lastTimestamp)).value
             next == IF i + 1 <= Len(parsedLines)
                     THEN parsedLines[i + 1].timestamp ELSE UNDEFINED
             nextTimestamp == Coalesce(next, Seconds(currentTimestamp + 5)).value
             duration == Max(nextTimestamp - currentTimestamp, 1)
         IN timestampedLoop(parsedLines, i + 1, currentTimestamp + duration,
                Append(segs, [id |-> SegmentId(i - 1), text |-> parsedLines[i].text,
                              start |-> currentTimestamp, duration |-> duration]))

\* mode 2 of parseTranscriptText: the forEach over the sentences
RECURSIVE sentenceLoop(_, _, _, _)
sentenceLoop(sentences, idx, currentTime, segs) ==
    IF idx > Len(sentences) THEN segs
    ELSE sentenceLoop(sentences, idx + 1,
             currentTime + estimatedDuration(sentences[idx]),
             Append(segs, [id |-> SegmentId(idx - 1), text |-> sentences[idx],
                           start |-> currentTime,
                           duration |-> estimatedDuration(sentences[idx])]))

someTimestamp(parsedLines) ==
    \E k \in DOMAIN parsedLines : parsedLines[k].timestamp # NULL

\* the local hasTimestamps of parseTranscriptText
parseHasTimestamps(rawText) ==
    LET lines == nonEmptyLines(rawText)
    IN Len(lines) # 0 /\ someTimestamp([k \in DOMAIN lines |-> parseLineTimestamp(lines[k])])

parseTranscriptText(rawText) ==
    LET lines == nonEmptyLines(rawText)
        parsedLines == [k \in DOMAIN lines |-> parseLineTimestamp(lines[k])]
    IN IF Len(lines) = 0 THEN <<>>
       ELSE IF someTimestamp(parsedLines)
       THEN timestampedLoop(parsedLines, 1, 0, <<>>)
       ELSE sentenceLoop(splitIntoSentences(joinTexts(parsedLines)), 1, 0, <<>>)

detectTranscriptFormat(text) ==
    LET lines == nonEmptyLines(text)
        parsedLines == [k \in DOMAIN lines |-> parseLineTimestamp(lines[k])]
        timestampedLines == SelectSeq(parsedLines, LAMBDA p : p.timestamp # NULL)
        hasTimestamps == 2 * Len(timestampedLines) > Len(lines)
        sentences == splitIntoSentences(joinTexts(parsedLines))
    IN [hasTimestamps |-> hasTimestamps,
        lineCount |-> Len(lines),
        estimatedSegments |-> IF hasTimestamps THEN Len(lines) ELSE Len(sentences),
        format |-> IF hasTimestamps THEN "Timestamped transcript detected"
                   ELSE IF Len(lines) = 1
                   THEN "Single paragraph - will be split into sentences"
                   ELSE "Plain text - will be split into sentences"]

\* ----------------------------------------- transcript parsing on its own

LineChoices ==
    {RawLine(NoStamp, <<" ">>),
     RawLine(NoStamp, <<"Hello", " ", "there", ".", " ", "Bye", "!">>),
     RawLine(NoStamp, <<"second", " ", "line">>),
     RawLine(LineStamp("bracket", <<0, 5>>), <<" ", "Hello">>),
     RawLine(LineStamp("bare", <<1, 2, 3>>), <<"-", " ", "later", ".">>),
     RawLine(LineStamp("paren", <<0, 10>>), <<>>)}

NotCalled == [pc |-> "called"]

TranscriptCall(rawText) ==
    [fn |-> "transcriptText", rawText |-> rawText,
     parsed |-> NotCalled, detected |-> NotCalled]

TranscriptInit ==
    /\ TranslateIdle
    /\ parseCall = NoCall
    /\ \E n \in 0..MaxLines :
           \E rawText \in [1..n -> LineChoices] : pureCall = TranscriptCall(rawText)

\* parseTranscriptText returns
ParseTranscriptTextReturns ==
    /\ pureCall.fn = "transcriptText"
    /\ pureCall.parsed.pc = "called"
    /\ pureCall' = [pureCall EXCEPT !.parsed =
           [pc |-> "returned",
            hasTimestamps |-> parseHasTimestamps(pureCall.rawText),
            segments |-> parseTranscriptText(pureCall.rawText)]]
    /\ UNCHANGED <<translateVars, parseCall>>

\* detectTranscriptFormat returns
DetectTranscriptFormatReturns ==
    /\ pureCall.fn = "transcriptText"
    /\ pureCall.detected.pc = "called"
    /\ pureCall' = [pureCall EXCEPT !.detected =
           [pc |-> "returned", result |-> detectTranscriptFormat(pureCall.rawText)]]
    /\ UNCHANGED <<translateVars, parseCall>>

TranscriptNext == ParseTranscriptTextReturns \/ DetectTranscriptFormatReturns

TranscriptSpec == TranscriptInit /\ [][TranscriptNext]_vars

\* ------------------------------------------------------------ audio buffers
\* src/services/geminiService.ts, lines 1184-1318.  A sample k stands for the
\* value k / SampleUnit, a time t for t / TimeUnit seconds.

SampleUnit == 4
TimeUnit == 4

\* an AudioBuffer: channelData[c + 1][p + 1] is sample p of channel c
AudioBuffer(sampleRate, channelData) ==
    [sampleRate |-> sampleRate,
     numberOfChannels |-> Len(channelData),
     length |-> Len(channelData[1]),
     channelData |-> channelData]

FloorSample_Ceil(time, sampleRate) ==
    (time * sampleRate + TimeUnit - 1) \div TimeUnit

\* Math.floor(time * sampleRate)
FloorSample(time, sampleRate) == (time * sampleRate) \div TimeUnit

Min(a, b) == IF a <= b THEN a ELSE b

\* the local length of sliceAudioBuffer
sliceLength(buffer, start, duration) ==
    LET startSample == FloorSample(start, buffer.sampleRate)
        endSample == FloorSample(start + duration, buffer.sampleRate)
    IN Min(endSample, buffer.length) - startSample

sliceAudioBuffer(buffer, start, duration) ==
    LET startSample == FloorSample(start, buffer.sampleRate)
        length == sliceLength(buffer, start, duration)
    IN IF startSample >= buffer.length THEN NULL
       ELSE IF length <= 0 THEN NULL
       ELSE [type |-> "AudioBuffer",
             buffer |-> AudioBuffer(buffer.sampleRate,
                 <<[i \in 1..length |-> buffer.channelData[1][startSample + i]]>>)]

\* ------------------------------------------------ sliceAudioBuffer on its own

SliceSamples == {-3, 0, 2}
SampleRates == {1, 3}

\* the data of a buffer of this many channels and frames, every sample chosen
ChannelData(channels, frames, samples) == [1..channels -> [1..frames -> samples]]

SliceCall(buffer, start, duration) ==
    [fn |-> "sliceAudioBuffer", pc |-> "called", given |-> buffer,
     buffer |-> buffer, start |-> start, duration |-> duration, result |-> NULL]

SliceInit ==
    /\ TranslateIdle
    /\ parseCall = NoCall
    /\ \E rate \in SampleRates, channels \in 1..2, frames \in 0..MaxFrames,
             start \in 0..MaxSliceTime, duration \in -1..MaxSliceTime :
           \E channelData \in ChannelData(channels, frames, SliceSamples) :
               pureCall = SliceCall(AudioBuffer(rate, channelData), start, duration)

\* sliceAudioBuffer returns; it only reads the buffer it was given
SliceAudioBufferReturns ==
    /\ pureCall.pc = "called"
    /\ pureCall.fn = "sliceAudioBuffer"
    /\ pureCall' = [pureCall EXCEPT
           !.pc = "returned",
           !.result = sliceAudioBuffer(pureCall.buffer, pureCall.start,
                                       pureCall.duration)]
    /\ UNCHANGED <<translateVars, parseCall>>

SliceNext == SliceAudioBufferReturns

SliceSpec == SliceInit /\ [][SliceNext]_vars

\* -------------------------------------------------------------- WAV encoder

WAV_HEADER_BYTES == 44

\* the bytes of an unsigned number, lowest first (DataView, littleEndian true)
RECURSIVE LittleEndian(_, _)
LittleEndian(data, count) ==
    IF count = 0 THEN <<>>
    ELSE <<data % 256>> \o LittleEndian(data \div 256, count - 1)

\* view.setUint16 / setUint32 / setInt16 at byte pos (bytes count from 0)
writeBytes(view, pos, bytes) ==
    [k \in DOMAIN view |->
        IF k - 1 \in pos..(pos + Len(bytes) - 1) THEN bytes[k - pos] ELSE view[k]]
viewSetUint16(view, pos, data) == writeBytes(view, pos, LittleEndian(data % 65536, 2))
\* every number the header holds is between 0 and 2^31, so none wraps
viewSetUint32(view, pos, data) == writeBytes(view, pos, LittleEndian(data, 4))
viewSetInt16(view, pos, data) == writeBytes(view, pos, LittleEndian(data % 65536, 2))

\* the header of audioBufferToWav as <<bytes, value>> in the order written;
\* the data chunk length is written when pos is 40
headerFields(buffer, length) ==
    LET numOfChan == buffer.numberOfChannels
    IN <<<<4, 1179011410>>, <<4, length - 8>>, <<4, 1163280727>>,
         <<4, 544501094>>, <<4, 16>>, <<2, 1>>, <<2, numOfChan>>,
         <<4, buffer.sampleRate>>, <<4, buffer.sampleRate * 2 * numOfChan>>,
         <<2, numOfChan * 2>>, <<2, 16>>,
         <<4, 1635017060>>, <<4, length - 40 - 4>>>>

\* the calls of setUint16 and setUint32: each writes at pos and advances pos
RECURSIVE writeHeader(_, _, _)
writeHeader(fields, pos, view) ==
    IF fields = <<>> THEN [pos |-> pos, view |-> view]
    ELSE writeHeader(Tail(fields), pos + Head(fields)[1],
             IF Head(fields)[1] = 2
             THEN viewSetUint16(view, pos, Head(fields)[2])
             ELSE viewSetUint32(view, pos, Head(fields)[2]))

\* n / d without its fraction (| 0)
Truncate(n, d) == IF n >= 0 THEN n \div d ELSE -((-n) \div d)

\* lines 1299-1300: clamp to [-1, 1], then
\* (0.5 + sample < 0 ? sample * 32768 : sample * 32767) | 0
scaleSample(sample) ==
    LET clamped == Max(-SampleUnit, Min(SampleUnit, sample))
    IN IF 2 * clamped + SampleUnit < 0
       THEN Truncate(clamped * 32768, SampleUnit)
       ELSE Truncate(clamped * 32767, SampleUnit)

\* the for loop over the channels of frame pos
RECURSIVE writeFrame(_, _, _, _, _)
writeFrame(buffer, pos, i, offset, view) ==
    IF i < buffer.numberOfChannels
    THEN writeFrame(buffer, pos, i + 1, offset + 2,
             viewSetInt16(view, WAV_HEADER_BYTES + offset,
                          scaleSample(buffer.channelData[i + 1][pos + 1])))
    ELSE view

\* while (pos < buffer.length), with the pos the header writes left behind
RECURSIVE interleave(_, _, _, _)
interleave(buffer, pos, offset, view) ==
    IF pos < buffer.length
    THEN interleave(buffer, pos + 1, offset + 2 * buffer.numberOfChannels,
             writeFrame(buffer, pos, 0, offset, view))
    ELSE view

\* the bytes of the Blob audioBufferToWav returns
audioBufferToWav(buffer) ==
    LET numOfChan == buffer.numberOfChannels
        length == buffer.length * numOfChan * 2 + WAV_HEADER_BYTES
        bufferArr == [k \in 1..length |-> 0]
        header == writeHeader(headerFields(buffer, length), 0, bufferArr)
    IN interleave(buffer, header.pos, 0, header.view)

\* ------------------------------------------------ audioBufferToWav on its own

WavSamples == {-6, -3, -1, 2, 6}
WavRates == {3, 16000}
CycleSamples == <<-6, -4, -3, -2, -1, 0, 1, 2, 3, 4, 6>>

\* a buffer longer than the header, its samples running through CycleSamples
CycleBuffer(rate, channels, frames, shift) ==
    AudioBuffer(rate,
        [c \in 1..channels |-> [p \in 1..frames |->
            CycleSamples[((p + c + shift) % Len(CycleSamples)) + 1]]])

WavCall(buffer) ==
    [fn |-> "audioBufferToWav", pc |-> "called", buffer |-> buffer, result |-> <<>>]

WavInit ==
    /\ TranslateIdle
    /\ parseCall = NoCall
    /\ \E rate \in WavRates, channels \in 1..2 :
           \/ \E frames \in 0..MaxFrames :
                  \E channelData \in ChannelData(channels, frames, WavSamples) :
                      pureCall = WavCall(AudioBuffer(rate, channelData))
           \/ \E extra \in 1..MaxFrames, shift \in 0..1 :
                  pureCall = WavCall(CycleBuffer(rate, channels,
                                                 WAV_HEADER_BYTES + extra, shift))

\* audioBufferToWav returns
AudioBufferToWavReturns ==
    /\ pureCall.pc = "called"
    /\ pureCall.fn = "audioBufferToWav"
    /\ pureCall' = [pureCall EXCEPT
           !.pc = "returned", !.result = audioBufferToWav(pureCall.buffer)]
    /\ UNCHANGED <<translateVars, parseCall>>

WavNext == AudioBufferToWavReturns

WavSpec == WavInit /\ [][WavNext]_vars

\* ----------------------------------------- buildTranslationBatches on its own

BatchTexts == {"short", "long", "huge"}

\* lists of short texts that reach the segment cap: one batch that is full,
\* and one and two segments more
LongListLengths ==
    {TRANSLATION_MAX_SEGMENTS_PER_BATCH, TRANSLATION_MAX_SEGMENTS_PER_BATCH + 1,
     TRANSLATION_MAX_SEGMENTS_PER_BATCH + 2}

BatchCall(segs) ==
    [fn |-> "buildTranslationBatches", pc |-> "called", segments |-> segs,
     result |-> <<>>]

BatchInit ==
    /\ TranslateIdle
    /\ parseCall = NoCall
    /\ \/ \E n \in 0..MaxBatchSegs :
              \E text \in [1..n -> BatchTexts] :
                  pureCall = BatchCall([i \in 1..n |-> MakeSegment(i, text[i], UNDEFINED)])
       \/ \E n \in LongListLengths :
              pureCall = BatchCall([i \in 1..n |-> MakeSegment(i, "short", UNDEFINED)])

\* buildTranslationBatches returns
BuildTranslationBatchesReturns ==
    /\ pureCall.fn = "buildTranslationBatches"
    /\ pureCall.pc = "called"
    /\ pureCall' = [pureCall EXCEPT
           !.pc = "returned", !.result = buildTranslationBatches(pureCall.segments)]
    /\ UNCHANGED <<translateVars, parseCall>>

BatchNext == BuildTranslationBatchesReturns

BatchSpec == BatchInit /\ [][BatchNext]_vars

\* ------------------------------------------------------------ pitch contours
\* src/services/geminiService.ts, lines 1415-1425.  A number is NaN or the
\* exact quotient num / den in lowest terms (the code computes in floating
\* point).

NaN == [type |-> "NaN"]

RECURSIVE GCD(_, _)
GCD(a, b) == IF b = 0 THEN a ELSE GCD(b, a % b)

\* num / den for den > 0, in lowest terms
Ratio(num, den) ==
    LET g == GCD(IF num < 0 THEN -num ELSE num, den)
    IN [type |-> "number", num |-> num \div g, den |-> den \div g]

Zero == Ratio(0, 1)

\* a > b, a === b, a - b and a / b of JavaScript numbers
Greater(a, b) ==
    a # NaN /\ b # NaN /\ a.num * b.den > b.num * a.den
StrictEquals(a, b) == a # NaN /\ b # NaN /\ a = b
Minus(a, b) ==
    IF a = NaN \/ b = NaN THEN NaN
    ELSE Ratio(a.num * b.den - b.num * a.den, a.den * b.den)
\* the divisor is never negative here, and 0 is only ever divided into 0
Divide(a, b) ==
    IF a = NaN \/ b = NaN \/ b.num = 0 THEN NaN
    ELSE Ratio(a.num * b.den, a.den * b.num)

\* Math.min(...values) and Math.max(...values) of a non-empty list without NaN
MathMin(values) ==
    values[CHOOSE k \in DOMAIN values :
               \A other \in DOMAIN values : ~Greater(values[k], values[other])]
MathMax(values) ==
    values[CHOOSE k \in DOMAIN values :
               \A other \in DOMAIN values : ~Greater(values[other], values[k])]

normalizePitchData(data) ==
    LET nonZero == SelectSeq(data, LAMBDA n : Greater(n, Zero))
    IN IF Len(nonZero) = 0 THEN data
       ELSE LET min == MathMin(nonZero)
                max == MathMax(nonZero)
            IN [k \in DOMAIN data |->
                   IF StrictEquals(data[k], Zero) THEN Zero
                   ELSE Divide(Minus(data[k], min), Minus(max, min))]

\* --------------------------------------------- normalizePitchData on its own

\* what detectPitch puts in a contour: 0 for an unvoiced frame, else 50..1000 Hz
PitchValues == {Ratio(0, 1), Ratio(50, 1), Ratio(100, 1), Ratio(250, 1), Ratio(1000, 1)}

PitchCall(data) ==
    [fn |-> "normalizePitchData", pc |-> "called", data |-> data,
     result |-> <<>>, again |-> <<>>]

PitchInit ==
    /\ TranslateIdle
    /\ parseCall = NoCall
    /\ \E n \in 0..MaxContour :
           \E data \in [1..n -> PitchValues] : pureCall = PitchCall(data)

\* normalizePitchData returns
NormalizePitchDataReturns ==
    /\ pureCall.fn = "normalizePitchData"
    /\ pureCall.pc = "called"
    /\ pureCall' = [pureCall EXCEPT
           !.pc = "returned", !.result = normalizePitchData(pureCall.data)]
    /\ UNCHANGED <<translateVars, parseCall>>

\* normalizePitchData is called with what it returned, and returns
NormalizeAgainReturns ==
    /\ pureCall.fn = "normalizePitchData"
    /\ pureCall.pc = "returned"
    /\ pureCall' = [pureCall EXCEPT
           !.pc = "returned twice", !.again = normalizePitchData(pureCall.result)]
    /\ UNCHANGED <<translateVars, parseCall>>

PitchNext == NormalizePitchDataReturns \/ NormalizeAgainReturns

PitchSpec == PitchInit /\ [][PitchNext]_vars

\* ------------------------------------------------------------------ claims

Positions == 1..Len(segments)
Count(log, event) == Cardinality({k \in DOMAIN log : log[k] = event})

\* translateSegments got a client and has returned
Finished == pc = "returned" /\ hasApiKey /\ Len(segments) > 0

\* no attempt of any invocation succeeded
NoCallSucceeded == \A t \in TaskIds : Count(tasks[t].log, Ok) = 0

\* the sizes of the first k top-level batches, added up
RECURSIVE SizeOfFirst(_)
SizeOfFirst(k) == IF k = 0 THEN 0 ELSE SizeOfFirst(k - 1) + Len(batches[k])

\* C1: for a non-empty input and whatever the capability does, translateSegments
\* does not throw, and what it returns has the length and the order of the
\* input and a non-empty translation string in every segment.
C1_AlwaysTranslated ==
    /\ pc # "threw"
    /\ (pc = "returned" /\ Len(segments) > 0) =>
           /\ Len(returned) = Len(segments)
           /\ \A i \in Positions :
                  /\ returned[i].id = segments[i].id
                  /\ returned[i].text = segments[i].text
                  /\ returned[i].translation.type = "string"
                  /\ Len(returned[i].translation.chars) > 0

\* C1 witness: a partial failure, the first segment got the fallback and the
\* second the capability's answer.
C1_Witness ==
    /\ Finished
    /\ Len(returned) = 2
    /\ returned[1].translation = TRANSLATION_FALLBACK_TEXT
    /\ returned[2].translation = Answer(1)
    /\ \E t \in TaskIds : Count(tasks[t].log, Failure) > 0

\* C2 as stated: when every call fails, every returned segment carries the
\* fallback sentinel, also a segment that came with a translation.
C2_AllFallback ==
    (pc = "returned" /\ NoCallSucceeded) =>
        \A i \in Positions : returned[i].translation = TRANSLATION_FALLBACK_TEXT

\* C2 amended: when every call fails, translateSegments does not throw and
\* returns every segment that came without a non-empty translation with the
\* fallback sentinel; a segment that came with one keeps it, unless no client
\* could be created, when it gets the sentinel too.
C2_FallbackUnlessEarlier ==
    /\ pc # "threw"
    /\ (pc = "returned" /\ NoCallSucceeded) =>
           /\ Len(returned) = Len(segments)
           /\ \A i \in Positions :
                  returned[i].translation =
                      IF hasApiKey /\ Truthy(segments[i].translation)
                      THEN segments[i].translation
                      ELSE TRANSLATION_FALLBACK_TEXT

\* C2 witness: every call failed, the first segment kept its earlier translation
\* and the second, which had none, got the sentinel.
C2_Witness ==
    /\ Finished
    /\ NoCallSucceeded
    /\ Len(returned) = 2
    /\ segments[2].translation = UNDEFINED
    /\ returned[1].translation = EarlierTranslation
    /\ returned[2].translation = TRANSLATION_FALLBACK_TEXT

\* completed never decreases from one snapshot to the next
CompletedMonotonic ==
    \A k \in 1..Len(progress) - 1 : progress[k].completed <= progress[k + 1].completed

\* C3: against a capability that fails every call for the whole 20-segment batch
\* and answers every call for a sub-batch, translateSegments returns 20
\* segments, each with the capability's answer for it (never the fallback),
\* and the completed values reported are non-decreasing and end at 20.
C3_SplitRecovers ==
    (Finished /\ capability = "failsWholeBatch" /\ Len(segments) = 20) =>
        /\ Len(returned) = 20
        /\ \A i \in 1..20 :
               /\ returned[i].translation = Answer(i - 1)
               /\ returned[i].translation # TRANSLATION_FALLBACK_TEXT
        /\ CompletedMonotonic
        /\ Len(progress) > 0
        /\ progress[Len(progress)].completed = 20

\* C3 witness: the 20-segment batch failed three times, was split, and the call
\* returned.
C3_Witness ==
    /\ Finished
    /\ capability = "failsWholeBatch"
    /\ Len(segments) = 20
    /\ Count(tasks[Root(1)].log, Failure) = 3
    /\ Len(tasks[LeftOf(Root(1))].batch) = 10

\* every invocation started for top-level batch b has resolved
RecoveryFinished(b) == \A t \in TaskIds : t[1] = b => tasks[t].pc = "done"

\* C4: onProgress is called once per top-level batch, in batch order, after the
\* recovery of that batch has finished; completed never decreases, total is
\* the input length in every snapshot, and the last snapshot has
\* completed = total.
C4_ProgressPerBatch ==
    /\ pc = "running" => Len(progress) = batchNo - 1
    /\ Finished => Len(progress) = Len(batches)
    /\ \A k \in 1..Len(progress) :
           /\ progress[k].completed = SizeOfFirst(k)
           /\ progress[k].total = Len(segments)
           /\ RecoveryFinished(k)
    /\ CompletedMonotonic
    /\ Finished => progress[Len(progress)].completed = progress[Len(progress)].total

\* C4 witness: two top-level batches, both reported, the first one after its
\* retries were exhausted.
C4_Witness ==
    /\ Finished
    /\ Len(batches) = 2
    /\ Len(progress) = 2
    /\ progress[1].completed = 1
    /\ progress[2].completed = 2
    /\ Count(tasks[Root(1)].log, Failure) = 3

FallbacksAmong(snapshot, upTo) ==
    Cardinality({i \in 1..upTo :
        snapshot.translatedSegments[i].translation = TRANSLATION_FALLBACK_TEXT})

\* C5 as stated: in every snapshot failed is the number of segments of the
\* snapshot's list that carry the fallback sentinel.
C5_FailedCountsSnapshot ==
    \A k \in 1..Len(progress) :
        progress[k].failed = FallbacksAmong(progress[k], Len(segments))

\* C5 amended: in every snapshot failed is the number of segments of the batches
\* processed so far (the first completed positions of the snapshot's list) that
\* carry the fallback sentinel; segments of batches not yet processed are not
\* counted, also when they came with the sentinel.  Hence failed <= completed,
\* and failed never decreases.
C5_FailedCountsProcessed ==
    /\ \A k \in 1..Len(progress) :
           /\ progress[k].failed = FallbacksAmong(progress[k], progress[k].completed)
           /\ progress[k].failed <= progress[k].completed
    /\ \A k \in 1..Len(progress) - 1 : progress[k].failed <= progress[k + 1].failed

\* C5 witness: a snapshot in which some but not all processed segments failed.
C5_Witness ==
    \E k \in 1..Len(progress) :
        /\ progress[k].failed > 0
        /\ progress[k].failed < progress[k].completed

\* the log of an invocation whose three attempts all fail
FailingLog ==
    <<Call, Failure, Sleep(1000), Call, Failure, Sleep(2000), Call, Failure>>

IsPrefix(log, full) == Len(log) <= Len(full) /\ log = SubSeq(full, 1, Len(log))

\* a log that ends with a successful attempt
EndsOk(log) ==
    /\ Len(log) >= 2
    /\ log[Len(log)] = Ok
    /\ log[Len(log) - 1] = Call
    /\ IsPrefix(SubSeq(log, 1, Len(log) - 1), FailingLog)

\* C6: every batch, top-level or sub-batch, is sent to the capability at most 3
\* times, an attempt follows only a failed attempt, the wait between attempt k
\* and attempt k+1 is k seconds, and nothing is waited for after the third
\* failure or after a success.
C6_RetryPolicy ==
    \A t \in TaskIds :
        LET task == tasks[t]
        IN /\ Count(task.log, Call) <= 3
           /\ Count(task.log, Call) = task.attempt
           /\ IsPrefix(task.log, FailingLog) \/ EndsOk(task.log)
           /\ task.pc = "sleeping" <=>
                  task.log # <<>> /\ task.log[Len(task.log)].ev = "sleep"
           /\ task.pc = "calling" <=> task.log[Len(task.log)] = Call

\* C6 witness: a batch that succeeded at its third attempt, after waits of one
\* and of two seconds.
C6_Witness ==
    \E t \in TaskIds :
        tasks[t].log =
            <<Call, Failure, Sleep(1000), Call, Failure, Sleep(2000), Call, Ok>>

Exhausted(task) == Count(task.log, Failure) = 3
HasChildren(t) == LeftOf(t) \in TaskIds \/ RightOf(t) \in TaskIds

\* C7: after three failed attempts a batch of one segment returns one missing
\* result and calls nothing further; a batch of n > 1 segments is split into a
\* left part of ceil(n/2) and a right part of floor(n/2) segments, both are
\* translated with the same policy and started together, and the parent
\* returns only after both have finished.
C7_GiveUpOrSplit ==
    \A t \in TaskIds :
        LET task == tasks[t]
            n == Len(task.batch)
        IN /\ HasChildren(t) <=> Exhausted(task) /\ n > 1
           /\ (Exhausted(task) /\ n = 1) =>
                  /\ task.pc = "done"
                  /\ task.result = <<NULL>>
                  /\ task.log = FailingLog
           /\ HasChildren(t) =>
                  LET left == tasks[LeftOf(t)]
                      right == tasks[RightOf(t)]
                  IN /\ LeftOf(t) \in TaskIds /\ RightOf(t) \in TaskIds
                     /\ Len(left.batch) = n - (n \div 2)
                     /\ Len(right.batch) = n \div 2
                     /\ left.batch \o right.batch = task.batch
                     /\ Head(left.log) = Call /\ Head(right.log) = Call
                     /\ task.pc \in {"joining", "done"}
                     /\ task.pc = "done" =>
                            /\ left.pc = "done" /\ right.pc = "done"
                            /\ task.result = left.result \o right.result

\* C7 witness: a batch of three segments was split into two and one, and the
\* one on the right is still being translated.
C7_Witness ==
    \E t \in TaskIds :
        /\ Len(tasks[t].batch) = 3
        /\ HasChildren(t)
        /\ tasks[t].pc = "joining"
        /\ tasks[LeftOf(t)].pc = "done"
        /\ tasks[RightOf(t)].pc = "calling"

\* C7 second case reached: a single segment given up after three attempts
\* inside a split batch whose parent has returned.
C7_GiveUpWitness ==
    \E t \in TaskIds :
        /\ HasChildren(t)
        /\ tasks[t].pc = "done"
        /\ tasks[LeftOf(t)].result = <<NULL>>
        /\ Exhausted(tasks[LeftOf(t)])

\* the outcomes of the attempts of a log, in order
RECURSIVE Outcomes(_)
Outcomes(log) ==
    IF log = <<>> THEN <<>>
    ELSE IF Head(log) \in {Ok, Failure} THEN <<Head(log)>> \o Outcomes(Tail(log))
    ELSE Outcomes(Tail(log))

CallsInFlight == {t \in TaskIds : tasks[t].pc = "calling"}

\* C8: a call that has not settled after 90 s counts as a failed attempt of its
\* batch and contributes no result; a timer is pending exactly while its call
\* is awaited, so it is cancelled when the call settles, and none is pending
\* once translateSegments has returned.
C8_TimeoutAndTimers ==
    /\ timers = {Timer(t, tasks[t].attempt) : t \in CallsInFlight}
    /\ \A timer \in timers : timer.ms = 90000
    /\ \A call \in late :
           /\ Len(Outcomes(tasks[call[1]].log)) >= call[2]
           /\ Outcomes(tasks[call[1]].log)[call[2]] = Failure
           /\ tasks[call[1]].result = <<>>
    /\ pc \in {"returned", "threw"} => timers = {}

\* C8 witness: a call timed out, its batch is being retried, and an earlier
\* call of the same run settled in time.
C8_Witness ==
    \E call \in late :
        /\ tasks[call[1]].pc = "calling"
        /\ tasks[call[1]].attempt = call[2] + 1
        /\ \E t \in TaskIds : tasks[t].pc = "done" /\ Count(tasks[t].log, Ok) = 1

\* C9: top-level batches are processed one after another: an invocation for
\* batch k+1 exists (and so a call for it is issued) only when every invocation
\* for batch k has resolved and the snapshot of batch k has been emitted.
C9_BatchesSequential ==
    \A t \in TaskIds :
        /\ t[1] <= batchNo
        /\ t[1] > 1 =>
               /\ RecoveryFinished(t[1] - 1)
               /\ Len(progress) >= t[1] - 1
               /\ progress[t[1] - 1].completed = SizeOfFirst(t[1] - 1)
        /\ tasks[t].pc # "done" => t[1] = batchNo /\ Len(progress) = batchNo - 1

\* C9 witness: the second batch is being translated after the first one was
\* split and reported.
C9_Witness ==
    /\ batchNo = 2
    /\ tasks[Root(2)].pc = "calling"
    /\ Len(progress) = 1
    /\ Count(tasks[Root(1)].log, Failure) > 0

\* C10: for a response that is an object keyed by index, bare or bracketed keys,
\* counting from 0 or from 1, parseTranslations returns at every position i the
\* (normalized) value stored under the key of the i-th input line.
C10_KeyedByPosition ==
    (parseCall.pc = "returned" /\ parseCall.shape.shape = "keyed") =>
        \A k \in 1..parseCall.expectedCount :
            parseCall.result[k] = normalizeTranslation(At(parseCall.items, k - 1))

\* C11: a response that is the expected JSON wrapped in a markdown code fence
\* yields the translations the unfenced response yields, position by position,
\* and does not count as a failed attempt.
C11_FenceTolerated ==
    (parseCall.pc # "none" /\ parseCall.pc # "called" /\ parseCall.fenced) =>
        /\ parseCall.pc = "returned"
        /\ parseCall.result =
               parseTranslations(JsonText(parseCall.responseText.value),
                                 parseCall.expectedCount)

\* C13: without an API key translateSegments makes no capability call, sets no
\* timer and emits no snapshot; it returns the input segments in input order,
\* every translation the fallback text and every other field as it was.
C13_NoKeyAllFallback ==
    (pc = "returned" /\ ~hasApiKey) =>
        /\ tasks = <<>>
        /\ timers = {}
        /\ late = {}
        /\ progress = <<>>
        /\ Len(returned) = Len(segments)
        /\ \A k \in Positions :
               returned[k] =
                   [segments[k] EXCEPT !.translation = TRANSLATION_FALLBACK_TEXT]

\* a call without a key has returned two segments, one of which came with an
\* earlier translation
C13_Witness ==
    /\ pc = "returned"
    /\ ~hasApiKey
    /\ Len(segments) = 2
    /\ segments[1].translation = EarlierTranslation
    /\ segments[2].translation = UNDEFINED
    /\ returned[1].translation = TRANSLATION_FALLBACK_TEXT

\* what the claim calls an entry that is absent, not a string, or empty after
\* trimming
MissingEntry(entry) ==
    entry.type # "string" \/ \A k \in DOMAIN entry.chars : entry.chars[k] = " "

\* C12: for a response that parses as JSON parseTranslations returns exactly
\* expectedCount entries; a position is reported missing (null) exactly when
\* its entry in the response is absent, not a string or empty after trimming,
\* and every other position carries its own trimmed entry.
C12_MissingForThatPositionOnly ==
    parseCall.pc = "returned" =>
        /\ Len(parseCall.result) = parseCall.expectedCount
        /\ \A k \in 1..parseCall.expectedCount :
               LET entry == At(parseCall.items, k - 1)
               IN IF MissingEntry(entry)
                  THEN parseCall.result[k] = NULL
                  ELSE parseCall.result[k] = Str(Trim(entry.chars))

\* C14: for any caption stream, cues out of time order, overlapping or ending
\* before they start included, every segment parseVtt returns has a non-empty
\* text and a duration above 0, and the segments are sorted by start.
C14_SegmentsWellFormed ==
    (pureCall.pc = "returned" /\ pureCall.fn = "parseVtt") =>
        /\ \A k \in DOMAIN pureCall.result :
               /\ StringLength(pureCall.result[k].text) > 0
               /\ pureCall.result[k].duration > 0
        /\ \A k \in DOMAIN pureCall.result : \A later \in DOMAIN pureCall.result :
               k < later => pureCall.result[k].start <= pureCall.result[later].start

\* a cue of less than 0.05 s
IsEchoCue(line) ==
    line.kind = "time" /\ parseTimestamp(line.to) - parseTimestamp(line.from) < TinyCueMs

\* the lines that follow the text lines of a cue: cue text runs up to a blank
\* line or the next cue timing
RECURSIVE AfterCueText(_)
AfterCueText(lines) ==
    IF lines = <<>> \/ isBlank(Head(lines)) \/ Head(lines).kind = "time" THEN lines
    ELSE AfterCueText(Tail(lines))

\* the stream without its cues of less than 0.05 s, timing line and text lines
RECURSIVE WithoutEchoCues(_)
WithoutEchoCues(lines) ==
    IF lines = <<>> THEN <<>>
    ELSE IF IsEchoCue(Head(lines)) THEN WithoutEchoCues(AfterCueText(Tail(lines)))
    ELSE <<Head(lines)>> \o WithoutEchoCues(Tail(lines))

HasEchoCue(lines) == \E k \in DOMAIN lines : IsEchoCue(lines[k])

\* C15: a cue of less than 0.05 s contributes nothing to what parseVtt returns,
\* neither its timing nor its text lines, directly or through the merge, and
\* the cues after it are parsed as cues: parseVtt returns what it returns for
\* the stream with those cues and their text lines taken out.
C15_EchoCuesContributeNothing ==
    (pureCall.pc = "returned" /\ pureCall.fn = "parseVtt") =>
        pureCall.result = parseVtt(WithoutEchoCues(pureCall.vttContent))

\* the spec's example: an echo cue with a text line, directly followed by a
\* cue that is returned
C15_Witness ==
    /\ pureCall.pc = "returned"
    /\ pureCall.fn = "parseVtt"
    /\ pureCall.vttContent =
           CueBlock(TinyTiming, HelloLines, FALSE)
               \o CueBlock(ExampleTiming, ExampleLines, FALSE)
    /\ Len(pureCall.result) = 1
    /\ pureCall.result[1].start = 1500

\* the characters of a string, as one string
RECURSIVE AsString(_)
AsString(tokens) == IF tokens = <<>> THEN "" ELSE Head(tokens) \o AsString(Tail(tokens))

\* the example stream of the specification
ExampleStream ==
    <<CueLine(Timestamp(0, 0, 1, 0), Timestamp(0, 0, 1, 30)),
      TextLine(<<"Hello">>),
      CueLine(Timestamp(0, 0, 1, 500), Timestamp(0, 0, 4, 0)),
      TextLine(<<"Hello">>),
      TextLine(<<"<00:00:02.000>", "<c>", " ", "world">>)>>

ParsedExample ==
    pureCall.pc = "returned" /\ pureCall.fn = "parseVtt"
        /\ pureCall.vttContent = ExampleStream

\* C16 as stated: for the example stream parseVtt returns exactly one segment,
\* start 1.5 s, duration 2.5 s, text "Hello world".
C16_ExampleHelloWorld ==
    ParsedExample =>
        /\ Len(pureCall.result) = 1
        /\ pureCall.result[1].start = 1500
        /\ pureCall.result[1].duration = 2500
        /\ AsString(pureCall.result[1].text) = "Hello world"

\* the line the amended claim says is used, of two or more text lines
LineUsed(texts) ==
    IF \E k \in DOMAIN texts : hasTimingTag(texts[k])
    THEN texts[CHOOSE k \in DOMAIN texts :
                   /\ hasTimingTag(texts[k])
                   /\ \A before \in 1..(k - 1) : ~hasTimingTag(texts[before])]
    ELSE texts[Len(texts)]

\* C16, amended: for the example stream parseVtt returns exactly one segment,
\* start 1.5 s, duration 2.5 s, text "world"; and a cue of two or more text
\* lines is returned with the cleaned text of its first line that carries a
\* timing marker, or of its last line when no line carries one (and is left
\* out when that text is empty).
C16_TaggedLineOnly ==
    /\ ParsedExample =>
           /\ Len(pureCall.result) = 1
           /\ pureCall.result[1].start = 1500
           /\ pureCall.result[1].duration = 2500
           /\ AsString(pureCall.result[1].text) = "world"
    /\ (pureCall.pc = "returned" /\ pureCall.fn = "parseVtt") =>
           \A timing \in CueTimings, texts \in CueTexts, layout \in Layouts :
               LET start == parseTimestamp(timing[1])
                   duration == parseTimestamp(timing[2]) - start
                   text == cleanVttText(LineUsed(texts))
               IN (/\ pureCall.vttContent =
                          layout.header \o CueBlock(timing, texts, layout.blank)
                   /\ duration >= TinyCueMs
                   /\ Len(texts) >= 2
                   /\ \A k \in DOMAIN texts : ~includesArrow(TextLine(texts[k])))
                  => pureCall.result =
                         IF text = <<>> THEN <<>>
                         ELSE <<TranscriptItem(text, start, duration)>>

\* the example stream has been parsed
C16_Witness == ParsedExample /\ pureCall.result # <<>>

\* a cue with two lines that carry timing markers has been parsed
C16_TwoTaggedWitness ==
    /\ pureCall.pc = "returned"
    /\ pureCall.fn = "parseVtt"
    /\ pureCall.vttContent = CueBlock(LateTiming, TwoTaggedLines, TRUE)
    /\ pureCall.result = <<TranscriptItem(<<"two">>, 60000, 2500)>>

\* the condition the claim gives for merging the next cue into the running one
MergesAsClaimed(running, next) ==
    /\ running.text = <<>> \/ running.text[Len(running.text)] \notin {".", "!", "?"}
    /\ StringLength(running.text) + 1 + StringLength(next.text) < 200
    /\ next.start - (running.start + running.duration) < 2000

\* the list the claim describes: the first cue is the running segment; the
\* next cue is merged into it, or it is emitted and the next cue takes over
RECURSIVE MergedAsClaimed(_)
MergedAsClaimed(cues) ==
    IF Len(cues) <= 1 THEN cues
    ELSE LET running == cues[1]
             next == cues[2]
             rest == SubSeq(cues, 3, Len(cues))
         IN IF MergesAsClaimed(running, next)
            THEN MergedAsClaimed(
                     <<[text |-> running.text \o <<" ">> \o next.text,
                        start |-> running.start,
                        duration |-> next.start + next.duration - running.start]>>
                         \o rest)
            ELSE <<running>> \o MergedAsClaimed(<<next>> \o rest)

\* C17: mergeSegments, walking the cues left to right, merges the next cue into
\* the running segment if and only if the running text does not end in . ! or
\* ?, the two texts joined by one space are shorter than 200 characters, and
\* the next cue starts less than 2 s after the running segment ends; a merge
\* keeps the running start and sets the duration to next.start + next.duration
\* - running.start; otherwise the running segment is emitted unchanged and the
\* next cue becomes the running segment.
C17_MergeRule ==
    (pureCall.pc = "returned" /\ pureCall.fn = "mergeSegments") =>
        pureCall.result = MergedAsClaimed(pureCall.segs)

\* two cues were merged, and the third was not because the merged text ends a
\* sentence
C17_Witness ==
    /\ pureCall.pc = "returned"
    /\ pureCall.fn = "mergeSegments"
    /\ pureCall.segs =
           <<TranscriptItem(<<"a">>, 0, 1000), TranscriptItem(<<"b", ".">>, 2999, 500),
             TranscriptItem(<<"a">>, 3000, 1000)>>
    /\ pureCall.result =
           <<TranscriptItem(<<"a", " ", "b", ".">>, 0, 3499),
             TranscriptItem(<<"a">>, 3000, 1000)>>

\* a text of 200 characters and a gap of exactly 2 s were each refused
C17_BoundaryWitness ==
    /\ pureCall.pc = "returned"
    /\ pureCall.fn = "mergeSegments"
    /\ Len(pureCall.segs) = 3
    /\ Len(pureCall.result) = 3
    /\ StringLength(pureCall.segs[1].text) + 1 + StringLength(pureCall.segs[2].text) = 200
    /\ pureCall.segs[2].start + pureCall.segs[2].duration = 1000
    /\ StringLength(pureCall.segs[3].text) = 1
    /\ pureCall.segs[3].start = 3000

\* how many of the non-empty lines of the text carry a timestamp
StampedLines(rawText) ==
    Cardinality({k \in DOMAIN rawText : rawText[k].stamp # NoStamp})
NonEmptyLineCount(rawText) ==
    Cardinality({k \in DOMAIN rawText :
        rawText[k].stamp # NoStamp \/ \E c \in DOMAIN rawText[k].text :
            rawText[k].text[c] # " "})

\* C18: parseTranscriptText treats the text as timestamped only when at least
\* half of its non-empty lines carry a timestamp; when fewer than half do, it
\* handles the whole text as timestamp-free, which is what
\* detectTranscriptFormat reports for the same text.
C18_TimestampedOnlyWhenHalf ==
    (pureCall.fn = "transcriptText" /\ pureCall.parsed.pc = "returned"
         /\ pureCall.detected.pc = "returned") =>
        /\ pureCall.parsed.hasTimestamps =>
               2 * StampedLines(pureCall.rawText) >= NonEmptyLineCount(pureCall.rawText)
        /\ 2 * StampedLines(pureCall.rawText) < NonEmptyLineCount(pureCall.rawText) =>
               /\ ~pureCall.parsed.hasTimestamps
               /\ ~pureCall.detected.result.hasTimestamps

SliceReturned == pureCall.pc = "returned" /\ pureCall.fn = "sliceAudioBuffer"

\* floor(time * sampleRate), time in quarters of a second
SampleAt(time, rate) ==
    CHOOSE n \in -8..(8 * rate) : 4 * n <= time * rate /\ time * rate < 4 * (n + 1)

\* C19: sliceAudioBuffer returns null exactly when floor(start * sampleRate) is
\* at or past the end of the buffer or min(floor((start + duration) *
\* sampleRate), length) - floor(start * sampleRate) is 0 or less; otherwise it
\* returns a new mono buffer of that length and the same sample rate whose
\* sample i is sample floor(start * sampleRate) + i of channel 0; the buffer
\* it was given is unchanged.
C19_SliceOrNull ==
    SliceReturned =>
        LET source == pureCall.given
            first == SampleAt(pureCall.start, source.sampleRate)
            last == SampleAt(pureCall.start + pureCall.duration, source.sampleRate)
            count == (IF last <= source.length THEN last ELSE source.length) - first
        IN /\ pureCall.result = NULL <=> (first >= source.length \/ count <= 0)
           /\ pureCall.result # NULL =>
                  /\ pureCall.result.buffer.numberOfChannels = 1
                  /\ pureCall.result.buffer.sampleRate = source.sampleRate
                  /\ pureCall.result.buffer.length = count
                  /\ \A i \in 0..(count - 1) :
                         pureCall.result.buffer.channelData[1][i + 1] =
                             source.channelData[1][first + i + 1]
           /\ pureCall.buffer = source

\* a slice that starts inside a two-channel buffer and is cut at its end
C19_Witness ==
    /\ SliceReturned
    /\ pureCall.given.numberOfChannels = 2
    /\ pureCall.given.length = 2
    /\ pureCall.given.sampleRate = 3
    /\ pureCall.start = 2
    /\ pureCall.duration = 4
    /\ pureCall.result # NULL
    /\ pureCall.result.buffer.length = 1
    /\ pureCall.result.buffer.channelData[1][1] = 2

\* a slice that starts in the buffer and has no sample is null
C19_NullWitness ==
    /\ SliceReturned
    /\ pureCall.given.length = 2
    /\ pureCall.given.sampleRate = 1
    /\ pureCall.start = 1
    /\ pureCall.duration = 2
    /\ pureCall.result = NULL

WavReturned == pureCall.pc = "returned" /\ pureCall.fn = "audioBufferToWav"

\* decoding: the unsigned number in count bytes from byte pos on, lowest first
RECURSIVE ReadUint(_, _, _)
ReadUint(file, pos, count) ==
    IF count = 0 THEN 0
    ELSE file[pos + 1] + 256 * ReadUint(file, pos + 1, count - 1)

\* decoding: the signed 16-bit number at byte pos
ReadInt16(file, pos) ==
    LET unsigned == ReadUint(file, pos, 2)
    IN IF unsigned >= 32768 THEN unsigned - 65536 ELSE unsigned

\* C20: decoding the file audioBufferToWav returns (44-byte header, 16-bit
\* PCM) gives the sample rate, the channel count and the frame count of the
\* buffer and, for every frame p and channel c, at byte 44 + 2 * (p * channels
\* + c), the 16-bit quantization of sample (p, c).
C20_WavRoundTrip ==
    WavReturned =>
        LET file == pureCall.result
            buffer == pureCall.buffer
            channels == buffer.numberOfChannels
        IN /\ Len(file) = 44 + 2 * channels * buffer.length
           /\ ReadUint(file, 22, 2) = channels
           /\ ReadUint(file, 24, 4) = buffer.sampleRate
           /\ ReadUint(file, 34, 2) = 16
           /\ ReadUint(file, 40, 4) = 2 * channels * buffer.length
           /\ \A p \in 0..(buffer.length - 1), c \in 0..(channels - 1) :
                  ReadInt16(file, 44 + 2 * (p * channels + c)) =
                      scaleSample(buffer.channelData[c + 1][p + 1])

\* the conversion the claim describes, of a sample held in quarters: clamp to
\* [-1, 1], then s * 32768 without its fraction when s is negative and
\* s * 32767 without its fraction otherwise
ClaimedConversion(sample) ==
    LET s == IF sample < -4 THEN -4 ELSE IF sample > 4 THEN 4 ELSE sample
    IN IF s < 0 THEN -((-s * 32768) \div 4) ELSE (s * 32767) \div 4

\* C21: every sample the WAV encoder stores is the sample clamped to [-1, 1]
\* and then s * 32768 truncated when s is negative, s * 32767 truncated when s
\* is not, so the stored integer lies in -32768..32767.  (The encoder stores
\* frame p, from frame 44 on, 44 frames early.)
C21_AsymmetricScaling ==
    WavReturned =>
        LET file == pureCall.result
            buffer == pureCall.buffer
            channels == buffer.numberOfChannels
        IN \A p \in 44..(buffer.length - 1), c \in 0..(channels - 1) :
               LET stored == ReadInt16(file, 44 + 2 * ((p - 44) * channels + c))
               IN /\ stored = ClaimedConversion(buffer.channelData[c + 1][p + 1])
                  /\ stored \in -32768..32767

Normalized == pureCall.fn = "normalizePitchData" /\ pureCall.pc # "called"
NormalizedTwice == pureCall.fn = "normalizePitchData" /\ pureCall.pc = "returned twice"
Voiced(data) == \E k \in DOMAIN data : data[k] # Zero

\* C22: normalizing a normalized contour changes nothing, for every contour
\* with a voiced frame; a contour without one, the empty one included, is
\* returned unchanged.
C22_Idempotent ==
    /\ (NormalizedTwice /\ Voiced(pureCall.data)) => pureCall.again = pureCall.result
    /\ (Normalized /\ ~Voiced(pureCall.data)) => pureCall.result = pureCall.data

\* C23: for every contour with a voiced frame, voiced frames of one and the
\* same frequency included, the normalized contour is as long as the contour
\* and each of its values is a number from 0 to 1.
C23_WithinUnitRange ==
    (Normalized /\ Voiced(pureCall.data)) =>
        /\ Len(pureCall.result) = Len(pureCall.data)
        /\ \A k \in DOMAIN pureCall.result :
               /\ pureCall.result[k] # NaN
               /\ 0 <= pureCall.result[k].num
               /\ pureCall.result[k].num <= pureCall.result[k].den

\* C30: the normalized contour is 0 exactly where the contour is 0, so no
\* voiced frame, the lowest one included, becomes the silence value.
C30_ZeroIffUnvoiced ==
    Normalized =>
        \A k \in DOMAIN pureCall.data :
            pureCall.result[k] = Zero <=> pureCall.data[k] = Zero

BatchesBuilt == pureCall.fn = "buildTranslationBatches" /\ pureCall.pc = "returned"

RECURSIVE Flatten(_)
Flatten(lists) == IF lists = <<>> THEN <<>> ELSE Head(lists) \o Flatten(Tail(lists))

\* C24: the batches partition the list: put one after the other they hold
\* the indices 0..n-1 once each and in order, each with its own segment; each
\* batch is a run of consecutive indices, none is empty, and the empty list
\* gives no batch.
C24_BatchesPartitionInput ==
    BatchesBuilt =>
        LET segs == pureCall.segments
            built == pureCall.result
            all == Flatten(built)
        IN /\ Len(all) = Len(segs)
           /\ \A k \in DOMAIN all :
                  all[k] = [index |-> k - 1, segment |-> segs[k]]
           /\ \A b \in DOMAIN built :
                  /\ Len(built[b]) > 0
                  /\ \A k \in 1..(Len(built[b]) - 1) :
                         built[b][k + 1].index = built[b][k].index + 1
           /\ (segs = <<>> => built = <<>>)

C24_Witness ==
    /\ BatchesBuilt
    /\ Len(pureCall.result) = 3
    /\ Len(pureCall.result[1]) = 2
    /\ Len(pureCall.segments) = 4

\* estimated size of a run of batch entries: text length + 8 for each
RECURSIVE EstimatedSize(_)
EstimatedSize(entries) ==
    IF entries = <<>> THEN 0
    ELSE TextLength(Head(entries).segment.text) + 8 + EstimatedSize(Tail(entries))

\* the entries of the batch holding index k - 1, up to that index
BatchBefore(built, k) ==
    LET b == CHOOSE b \in DOMAIN built :
                 \E e \in DOMAIN built[b] : built[b][e].index = k - 1
        e == CHOOSE e \in DOMAIN built[b] : built[b][e].index = k - 1
    IN SubSeq(built[b], 1, e)

StartsBatch(built, k) == \E b \in DOMAIN built : built[b][1].index = k

\* the batch is closed before segment k exactly when it is not empty and
\* segment k would make it more than 20 segments or more than 2200 in size
ClosingRule ==
    LET segs == pureCall.segments
        built == pureCall.result
    IN /\ (Len(segs) > 0 => StartsBatch(built, 0))
       /\ \A k \in 1..(Len(segs) - 1) :
              LET before == BatchBefore(built, k)
              IN StartsBatch(built, k) <=>
                     \/ Len(before) + 1 > 20
                     \/ EstimatedSize(before) + TextLength(segs[k + 1].text) + 8 > 2200

\* C25 as stated: the closing rule, and every batch has at most 20 segments
\* and an estimated size of at most 2200.
C25_BatchesWithinCaps ==
    BatchesBuilt =>
        /\ ClosingRule
        /\ \A b \in DOMAIN pureCall.result :
               /\ Len(pureCall.result[b]) <= 20
               /\ EstimatedSize(pureCall.result[b]) <= 2200

\* C25: the closing rule, and every batch has at most 20 segments and, when
\* it has more than one segment, an estimated size of at most 2200.
C25_BatchesWithinCapsUnlessSingle ==
    BatchesBuilt =>
        /\ ClosingRule
        /\ \A b \in DOMAIN pureCall.result :
               /\ Len(pureCall.result[b]) <= 20
               /\ Len(pureCall.result[b]) > 1 => EstimatedSize(pureCall.result[b]) <= 2200

\* a list of 22 short texts is cut after 20 segments
C25_Witness ==
    /\ BatchesBuilt
    /\ Len(pureCall.segments) = 22
    /\ Len(pureCall.result) = 2
    /\ Len(pureCall.result[1]) = 20
    /\ Len(pureCall.result[2]) = 2

\* "short", "long", "long" is cut before the second long text only
C25_CharCapWitness ==
    /\ BatchesBuilt
    /\ Len(pureCall.segments) = 3
    /\ Len(pureCall.result) = 2
    /\ Len(pureCall.result[1]) = 2
    /\ EstimatedSize(pureCall.result[1]) = ShortLen + LongLen + 16

\* the invocation split its batch
HasSplit(t) == LeftOf(t) \in TaskIds

\* a translation at a position of a batch is that segment's or is missing
BelongsTo(translation, entry) == translation \in {NULL, Answer(entry.index)}

\* C26: the halves of a split are two non-empty runs of the parent's batch,
\* the first followed by the second being the batch; the parent's result is
\* the left result followed by the right result and its position i belongs to
\* the batch's i-th segment, in whatever order the calls of the halves settle.
C26_MergeIsPositional ==
    \A t \in TaskIds :
        /\ HasSplit(t) =>
               /\ RightOf(t) \in TaskIds
               /\ tasks[LeftOf(t)].batch # <<>>
               /\ tasks[RightOf(t)].batch # <<>>
               /\ tasks[LeftOf(t)].batch \o tasks[RightOf(t)].batch = tasks[t].batch
               /\ \A i \in DOMAIN tasks[LeftOf(t)].batch, j \in DOMAIN tasks[RightOf(t)].batch :
                      tasks[LeftOf(t)].batch[i].index < tasks[RightOf(t)].batch[j].index
        /\ (HasSplit(t) /\ tasks[t].pc = "done") =>
               tasks[t].result = tasks[LeftOf(t)].result \o tasks[RightOf(t)].result
        /\ tasks[t].pc = "done" =>
               /\ Len(tasks[t].result) = Len(tasks[t].batch)
               /\ \A i \in DOMAIN tasks[t].batch :
                      BelongsTo(tasks[t].result[i], tasks[t].batch[i])

\* C26 witness: a batch of two was split, the left half gave up on its
\* segment, the right half had its answer at the first call, and the parent's
\* result has the missing translation first and the answer second.
C26_Witness ==
    /\ capability = "arbitrary"
    /\ Root(1) \in TaskIds
    /\ HasSplit(Root(1))
    /\ tasks[Root(1)].pc = "done"
    /\ tasks[Root(1)].result = <<NULL, Answer(1)>>
    /\ Count(tasks[LeftOf(Root(1))].log, Failure) = 3
    /\ Count(tasks[RightOf(Root(1))].log, Call) = 1

C27_OtherBatchWitness ==
    \E call \in Outstanding :
        /\ call[1] = Root(1)
        /\ batchNo = 2
        /\ tasks[Root(2)].pc = "calling"

C27_AfterReturnWitness == pc = "returned" /\ Outstanding # {}

\* u is t or an invocation that comes from a split at or below t
IsWithin(u, t) == Len(u) >= Len(t) /\ SubSeq(u, 1, Len(t)) = t

RECURSIVE CallsOf(_)
CallsOf(ts) ==
    IF ts = {} THEN 0
    ELSE LET t == CHOOSE t \in ts : TRUE
         IN Count(tasks[t].log, Call) + CallsOf(ts \ {t})

\* the calls made for the batch of invocation t, the calls of its halves and
\* of theirs included
CallsFor(t) == CallsOf({u \in TaskIds : IsWithin(u, t)})

\* an invocation for one segment does not split, the halves of a split are
\* shorter than the batch, and a batch of n segments causes at most
\* 3 * (2n - 1) calls
RecoveryBounded ==
    \A t \in TaskIds :
        /\ Len(tasks[t].batch) = 1 => ~HasSplit(t)
        /\ HasSplit(t) =>
               /\ Len(tasks[LeftOf(t)].batch) < Len(tasks[t].batch)
               /\ Len(tasks[RightOf(t)].batch) < Len(tasks[t].batch)
        /\ CallsFor(t) <= 3 * (2 * Len(tasks[t].batch) - 1)

\* C28: when every call settles or times out, recovery is bounded as above
\* and every invocation of translateBatchWithRecovery resolves, hence
\* translateSegments, once called, returns.
C28_RecoveryTerminates ==
    /\ []RecoveryBounded
    /\ <>[](\A t \in TaskIds : tasks[t].pc = "done")
    /\ (pc = "running") ~> (pc = "returned")

\* C28 witness: a batch of two segments used up all its 3 * (2 * 2 - 1) = 9
\* calls, every one of its three invocations has resolved, and
\* translateSegments has returned.
C28_Witness ==
    /\ Finished
    /\ Len(tasks[Root(1)].batch) = 2
    /\ CallsFor(Root(1)) = 9
    /\ \A t \in TaskIds : tasks[t].pc = "done"

\* the segment is the input segment but for its translation
SameButTranslation(out, in) ==
    /\ out.id = in.id
    /\ out.text = in.text
    /\ out.start = in.start
    /\ out.duration = in.duration

SameButTranslations(list) ==
    /\ Len(list) = Len(segments)
    /\ \A i \in Positions : SameButTranslation(list[i], segments[i])

\* C29: what translateSegments returns, and every list it hands to
\* onProgress, has at position i the id, text, start and duration of input
\* segment i, whether all calls succeed, some fail or no client can be made;
\* and no step changes the input list or a segment in it.
C29_OnlyTranslationChanges ==
    /\ [](/\ pc = "returned" => SameButTranslations(returned)
          /\ pc = "running" => SameButTranslations(translatedSegments)
          /\ \A k \in DOMAIN progress :
                 SameButTranslations(progress[k].translatedSegments))
    /\ [][segments' = segments]_vars

\* C29 witness: a partial failure; the input segments still have no
\* translation while the returned ones have the fallback and the answer.
C29_Witness ==
    /\ Finished
    /\ Len(returned) = 2
    /\ segments[1].translation = UNDEFINED
    /\ segments[2].translation = UNDEFINED
    /\ returned[1].translation = TRANSLATION_FALLBACK_TEXT
    /\ returned[2].translation = Answer(1)
    /\ returned[2].start = segments[2].start

\* the other paths: every call succeeded, and no client could be made
C29_SuccessWitness ==
    /\ Finished
    /\ Len(returned) = 2
    /\ \A t \in TaskIds : Count(tasks[t].log, Failure) = 0
    /\ returned[1].translation = Answer(0)
    /\ segments[1].translation = EarlierTranslation

C29_FailFastWitness ==
    /\ pc = "returned"
    /\ ~hasApiKey
    /\ Len(returned) = 2
    /\ returned[2].translation = TRANSLATION_FALLBACK_TEXT
    /\ segments[2].translation = UNDEFINED

====
